---- MODULE Spec2Model ----
(***************************************************************************)
(* Model of the HB2B reduction engine of PyRS                              *)
(* (pyrs/core/reduce_hb2b_pyrs.py): the instrument geometry                *)
(* (ResidualStressInstrument) and the histogram reducer (PyHB2BReduction). *)
(*                                                                         *)
(* Representation.                                                         *)
(*  - None is the empty sequence <<>>, a present value v is <<v>>.         *)
(*  - Lengths are integers in half units (every coordinate is stored       *)
(*    doubled), so that the panel centre (n*0.5 - 0.5) is exact.           *)
(*  - Rotations are multiples of 90 degrees, whose sines and cosines are   *)
(*    exact.                                                               *)
(*  - Angles are whole degrees; arccos is taken on a grid of 15 degrees    *)
(*    (rounded down to the grid).                                          *)
(*  - A call's outcome is kept in `last`: the operation, the exception it  *)
(*    raised ("" when it returned) and the value it returned.              *)
(***************************************************************************)
EXTENDS Integers, Sequences, FiniteSets, TLC

VARIABLES
    pixel_matrix,             \* ResidualStressInstrument._pixel_matrix
    pixel_2theta_matrix,      \* ResidualStressInstrument._pixel_2theta_matrix
    wave_length,              \* ResidualStressInstrument._wave_length
    detector_2theta,          \* PyHB2BReduction._detector_2theta
    detector_counts,          \* PyHB2BReduction._detector_counts
    detector_mask,            \* PyHB2BReduction._detector_mask
    reduced_diffraction_data, \* PyHB2BReduction._reduced_diffraction_data
    built,                    \* history: some build_instrument call has returned
    stress_field,             \* the StressField object (pyrs.dataobjects.fields)
    raw_pixel_matrix,         \* ResidualStressInstrument._raw_pixel_matrix
    arm_length,               \* ResidualStressInstrument._instrument_geom_params.arm_length
    data_dict,                \* RawDataManager._data_dict
    file_ref_dict,            \* RawDataManager._file_ref_dict
    last                      \* outcome of the latest call

vars == <<pixel_matrix, pixel_2theta_matrix, wave_length, detector_2theta,
          detector_counts, detector_mask, reduced_diffraction_data, built, stress_field,
          raw_pixel_matrix, arm_length, data_dict, file_ref_dict, last>>

None == <<>>
Some(v) == <<v>>

(***************************************************************************)
(* The geometry descriptor (AnglerCameraDetectorGeometry) the instrument   *)
(* is constructed with.                                                    *)
(***************************************************************************)
NumRows == 2
NumCols == 3
PixelSizeX == 2
PixelSizeY == 1
ArmLength == 1

NumPixels == NumRows * NumCols

(***************************************************************************)
(* Exceptions, by the statement that raises them.                          *)
(***************************************************************************)
NoError == ""
NotBuiltError == "RuntimeError: instrument has not been built yet"
AssertionFailure == "AssertionError: checkdatatypes"
WaveLengthTypeError == "TypeError: unsupported operand type(s) for *: float and NoneType"
InvalidRangeError == "RuntimeError: 2theta range is invalid for generating histogram"
ShapeMismatchError == "RuntimeError: arrays do not have the same shape"
NumBinsUnboundError == "UnboundLocalError: local variable num_bins referenced before assignment"
EdgeIndexError == "IndexError: index 1 is out of bounds"

(***************************************************************************)
(* Rotation kernel.                                                        *)
(***************************************************************************)
Cos(deg) == CASE deg = 0 -> 1
              [] deg = 90 -> 0
              [] deg = -90 -> 0
              [] deg = 180 -> -1

Sin(deg) == CASE deg = 0 -> 0
              [] deg = 90 -> 1
              [] deg = -90 -> -1
              [] deg = 180 -> 0

_cal_rotation_matrix_x(a) ==
    << <<1, 0, 0>>,
       <<0, Cos(a), 0 - Sin(a)>>,
       <<0, Sin(a), Cos(a)>> >>

_cal_rotation_matrix_y(a) ==
    << <<Cos(a), 0, Sin(a)>>,
       <<0, 1, 0>>,
       <<0 - Sin(a), 0, Cos(a)>> >>

_cal_rotation_matrix_z(a) ==
    << <<Cos(a), 0 - Sin(a), 0>>,
       <<Sin(a), Cos(a), 0>>,
       <<0, 0, 1>> >>

\* the element-wise product of two arrays (numpy.ndarray * numpy.ndarray)
ElementwiseMul(A, B) == [i \in 1..3 |-> [j \in 1..3 |-> A[i][j] * B[i][j]]]

\* numpy.matrix * numpy.matrix: the matrix product
MatMul(A, B) ==
    [i \in 1..3 |-> [j \in 1..3 |->
        A[i][1] * B[1][j] + A[i][2] * B[2][j] + A[i][3] * B[3][j]]]

generate_rotation_matrix(rx, ry, rz) ==
    MatMul(MatMul(_cal_rotation_matrix_x(rx), _cal_rotation_matrix_y(ry)),
           _cal_rotation_matrix_z(rz))

\* rotate_det[:, :, i] = sum over j of rotation_matrix[i, j] * detector_matrix[:, :, j]
_rotate_detector(detector_matrix, rotation_matrix) ==
    [c \in DOMAIN detector_matrix |-> [r \in DOMAIN detector_matrix[c] |->
        [i \in 1..3 |->
            rotation_matrix[i][1] * detector_matrix[c][r][1]
          + rotation_matrix[i][2] * detector_matrix[c][r][2]
          + rotation_matrix[i][3] * detector_matrix[c][r][3]]]]

(***************************************************************************)
(* Raw pixel layout.                                                       *)
(***************************************************************************)
\* the matrix before the transpose: [row][column], coordinates doubled
UntransposedPixels ==
    [row \in 0..(NumRows - 1) |-> [col \in 0..(NumCols - 1) |->
        << (NumCols - 1) * PixelSizeX - 2 * col * PixelSizeX,
           (0 - (NumRows - 1)) * PixelSizeY + 2 * row * PixelSizeY,
           0 >>]]

\* the layout left as it was filled, row by row
NoTranspose(m) == m

\* pixel_matrix.transpose((1, 0, 2))
Transpose(m) ==
    [c \in 0..(NumCols - 1) |-> [r \in 0..(NumRows - 1) |-> m[r][c]]]

_set_uncalibrated_pixels == Transpose(UntransposedPixels)

_raw_pixel_matrix == _set_uncalibrated_pixels

\* ndarray.reshape of an (m, n, ...) array to (m * n, ...): C order, 0-based
Reshape1D(m) ==
    LET nc == Cardinality(DOMAIN m)
        nr == Cardinality(DOMAIN m[0])
    IN  [k \in 0..(nc * nr - 1) |-> m[k \div nr][k % nr]]

(***************************************************************************)
(* Arguments the operations are called with.                               *)
(***************************************************************************)
\* instrument_calibration: None, an AnglerCameraDetectorShift, or an object
\* of another type
NoCalibration ==
    [kind |-> "None", center_shift_x |-> 0, center_shift_y |-> 0, center_shift_z |-> 0,
     rotation_x |-> 0, rotation_y |-> 0, rotation_z |-> 0]

NotAShift ==
    [kind |-> "Other", center_shift_x |-> 0, center_shift_y |-> 0, center_shift_z |-> 0,
     rotation_x |-> 0, rotation_y |-> 0, rotation_z |-> 0]

ShiftY ==
    [kind |-> "Shift", center_shift_x |-> 0, center_shift_y |-> 1, center_shift_z |-> 0,
     rotation_x |-> 0, rotation_y |-> 0, rotation_z |-> 0]

ShiftRot ==
    [kind |-> "Shift", center_shift_x |-> 1, center_shift_y |-> 0, center_shift_z |-> 1,
     rotation_x |-> 90, rotation_y |-> 0, rotation_z |-> 90]

Calibrations == {NoCalibration, ShiftY, ShiftRot, NotAShift}

\* two_theta: a float (degrees) or None
TwoThetas == {None, Some(0), Some(90)}

\* wavelengths given to set_wave_length
\* histogram_by_numpy takes five arguments; line 545 passes six
ArgumentCountError == "TypeError: histogram_by_numpy() takes 5 positional arguments but 6 were given"

WaveLengths == {1, 2}

(***************************************************************************)
(* pyrs.utilities.checkdatatypes                                           *)
(***************************************************************************)
\* check_float_variable(name, value, (low, high)) with low <= value <= high
\* taken for granted: passes for a number, fails for None
check_float_variable(value) == value # None

\* check_type(name, value, AnglerCameraDetectorShift)
check_type(calibration) == calibration.kind = "Shift"

\* the length of a 1-D array (arrays are functions on 0..n-1)
Size(a) == Cardinality(DOMAIN a)

\* a comparison that lets a shorter second array through
NotShorter(a, b) == Size(a) >= Size(b)

\* pixel_2theta_array.shape[0] != self._detector_counts.shape[0] (line 449), negated
SameShape(a, b) == Size(a) = Size(b)

\* check_numpy_arrays(name, [a, b], 1, check_same_shape=True) on two 1-D arrays
check_numpy_arrays(a, b) == SameShape(a, b)

(***************************************************************************)
(* ResidualStressInstrument                                                *)
(***************************************************************************)
\* 10000 * cos(d)^2 on the angle grid
Cos2Table ==
    [d \in {0, 15, 30, 45, 60, 75, 90} |->
        CASE d = 0 -> 10000
          [] d = 15 -> 9330
          [] d = 30 -> 7500
          [] d = 45 -> 5000
          [] d = 60 -> 2500
          [] d = 75 -> 670
          [] d = 90 -> 0]

SetMax(S) == CHOOSE x \in S : \A y \in S : y <= x
SetMin(S) == CHOOSE x \in S : \A y \in S : x <= y

\* arccos(p . k_in / |p|) * 180 / pi with k_in = (0, 0, 1), rounded down to the grid
ArcCosDeg(p) ==
    LET n2 == p[1] * p[1] + p[2] * p[2] + p[3] * p[3]
        z2 == p[3] * p[3] * 10000
    IN  IF p[3] >= 0
        THEN SetMax({d \in DOMAIN Cos2Table : Cos2Table[d] * n2 >= z2})
        ELSE 180 - SetMin({d \in DOMAIN Cos2Table : Cos2Table[d] * n2 <= z2})

\* the N x M x 3 branch: one angle per pixel of the matrix
_calculate_pixel_2theta(matrix) ==
    [c \in DOMAIN matrix |-> [r \in DOMAIN matrix[c] |-> ArcCosDeg(matrix[c][r])]]

\* self._pixel_matrix[:, :, 0] += center_shift_x; [:, :, 1] += center_shift_y
ShiftCenter(matrix, cal) ==
    [c \in DOMAIN matrix |-> [r \in DOMAIN matrix[c] |->
        << matrix[c][r][1] + 2 * cal.center_shift_x,
           matrix[c][r][2] + 2 * cal.center_shift_y,
           matrix[c][r][3] >>]]

\* self._pixel_matrix[:, :, 2] += arm_l2
PushZ(matrix, arm_l2) ==
    [c \in DOMAIN matrix |-> [r \in DOMAIN matrix[c] |->
        << matrix[c][r][1], matrix[c][r][2], matrix[c][r][3] + 2 * arm_l2 >>]]

\* an assignment without copy(): the same array under two names
ndarray_alias(raw) == [array |-> raw, shares_raw |-> TRUE]

\* self._raw_pixel_matrix.copy(): a new array, sharing nothing with the raw layout
ndarray_copy(raw) == [array |-> raw, shares_raw |-> FALSE]

\* the calibration block with the centre shift after the rotation
CalibratedShiftLast(raw, cal) ==
    IF cal.kind = "None"
    THEN raw
    ELSE ShiftCenter(_rotate_detector(raw,
            generate_rotation_matrix(cal.rotation_x, cal.rotation_y, cal.rotation_z)), cal)

\* the pixel matrix after the calibration block (lines 109-127)
Calibrated(raw, cal) ==
    IF cal.kind = "None"
    THEN raw
    ELSE _rotate_detector(ShiftCenter(raw, cal),
            generate_rotation_matrix(cal.rotation_x, cal.rotation_y, cal.rotation_z))

\* arm_l2: a local float; += rebinds it and leaves the geometry's arm_length
ArmL2(arm, cal) ==
    IF cal.kind = "None" THEN arm ELSE arm + cal.center_shift_z

\* the pixel matrix a build_instrument call that returns leaves behind
BuiltMatrix(raw, arm, two_theta, cal) ==
    _rotate_detector(PushZ(Calibrated(raw, cal), ArmL2(arm, cal)),
                     _cal_rotation_matrix_y(two_theta))

\* the raw layout after the in-place additions of a build that returns: they
\* are made on self._pixel_matrix, which _rotate_detector replaces by a new
\* array, so the first in-place addition is the only one on the array that
\* line 107 assigned
RawAfterBuild(raw, arm, cal) ==
    IF ~ndarray_copy(raw).shares_raw
    THEN raw
    ELSE IF cal.kind = "None" THEN PushZ(raw, ArmL2(arm, cal))
    ELSE ShiftCenter(raw, cal)

\* the instrument after build_instrument(two_theta, cal), and what the call
\* raised: [err, pm, tth, raw]
build_instrument(two_theta, cal, pm, tth, raw, arm) ==
    IF ~check_float_variable(two_theta)
    THEN [err |-> AssertionFailure, pm |-> pm, tth |-> tth, raw |-> raw]
    ELSE IF cal.kind # "None" /\ ~check_type(cal)
    THEN \* the copy of the raw layout is already assigned (line 107)
         [err |-> AssertionFailure, pm |-> Some(ndarray_copy(raw).array), tth |-> tth,
          raw |-> raw]
    ELSE LET m == BuiltMatrix(ndarray_copy(raw).array, arm, two_theta[1], cal)
         IN  [err |-> NoError, pm |-> Some(m), tth |-> Some(_calculate_pixel_2theta(m)),
              raw |-> RawAfterBuild(raw, arm, cal)]

get_pixel_matrix(pm) ==
    IF pm = None
    THEN [err |-> NotBuiltError, val |-> None]
    ELSE [err |-> NoError, val |-> pm]

get_pixel_array(pm) ==
    IF pm = None
    THEN [err |-> NotBuiltError, val |-> None]
    ELSE [err |-> NoError, val |-> Some(Reshape1D(pm[1]))]

get_pixels_2theta(tth, dimension) ==
    IF tth = None
    THEN [err |-> NotBuiltError, val |-> None]
    ELSE IF dimension = 1
    THEN [err |-> NoError, val |-> Some(Reshape1D(tth[1]))]
    ELSE [err |-> NoError, val |-> tth]

\* 10000 * sin(0.5 * d) for d on the angle grid
SinHalfTable ==
    [d \in {0, 15, 30, 45, 60, 75, 90, 105, 120, 135, 150, 165, 180} |->
        CASE d = 0 -> 0
          [] d = 15 -> 1305
          [] d = 30 -> 2588
          [] d = 45 -> 3827
          [] d = 60 -> 5000
          [] d = 75 -> 6088
          [] d = 90 -> 7071
          [] d = 105 -> 7934
          [] d = 120 -> 8660
          [] d = 135 -> 9239
          [] d = 150 -> 9659
          [] d = 165 -> 9914
          [] d = 180 -> 10000]

Infinity == 1000000 * 1000

\* 0.5 * wave_length / sin(0.5 * two_theta * pi / 180), in units of 0.001;
\* numpy gives inf at two_theta = 0
DSpacing(wl, two_theta) ==
    IF SinHalfTable[two_theta] = 0
    THEN Infinity
    ELSE (5000000 * wl) \div SinHalfTable[two_theta]

get_dspacing_value(tth, wl, dimension) ==
    LET two_theta_array == get_pixels_2theta(tth, dimension)
    IN  IF two_theta_array.err # NoError
        THEN two_theta_array
        ELSE IF wl = None
        THEN [err |-> WaveLengthTypeError, val |-> None]
        ELSE [err |-> NoError,
              val |-> Some([k \in DOMAIN two_theta_array.val[1] |->
                              DSpacing(wl[1], two_theta_array.val[1][k])])]

(***************************************************************************)
(* PyHB2BReduction                                                         *)
(***************************************************************************)
RECURSIVE SumUpTo(_, _)
\* a[0] + ... + a[k]
SumUpTo(a, k) == IF k < 0 THEN 0 ELSE a[k] + SumUpTo(a, k - 1)

ArrayMin(a) == SetMin({a[k] : k \in DOMAIN a})
ArrayMax(a) == SetMax({a[k] : k \in DOMAIN a})

\* numpy.arange(start, stop, step) for start < stop and step > 0
Arange(start, stop, step) ==
    LET n == (stop - start + step - 1) \div step
    IN  [i \in 0..(n - 1) |-> start + i * step]

\* a range check that lets an empty range through
RangeIsReversed(min_2theta, max_2theta) == min_2theta > max_2theta

\* min_2theta >= max_2theta (line 421)
RangeIsInvalid(min_2theta, max_2theta) == min_2theta >= max_2theta

\* [err, val]: the bin edges, or the exception raised
generate_2theta_histogram_vector(min_2theta, step_2theta, max_2theta, tth) ==
    LET pixels == get_pixels_2theta(tth, 1)
        default == min_2theta = None \/ max_2theta = None
    IN  IF default /\ pixels.err # NoError
        THEN [err |-> pixels.err, val |-> None]
        ELSE LET lo == IF min_2theta = None THEN ArrayMin(pixels.val[1]) ELSE min_2theta[1]
                 hi == IF max_2theta = None THEN ArrayMax(pixels.val[1]) ELSE max_2theta[1]
             IN  IF RangeIsInvalid(lo, hi)
                 THEN [err |-> InvalidRangeError, val |-> None]
                 ELSE [err |-> NoError, val |-> Some(Arange(lo, hi, step_2theta))]

\* the sum of the weights of the samples below edge (side = "left") or not
\* above it (side = "right"): cw[sa.searchsorted(edge, side)]
CumWeight(x, weights, edge, side) ==
    SumUpTo([k \in DOMAIN x |->
                IF x[k] < edge \/ (side = "right" /\ x[k] = edge)
                THEN weights[k] ELSE 0],
            Size(x) - 1)

\* every edge searched from the left: the last bin half-open too
EdgeSideLeft(i, n) == "left"

\* the side numpy.histogram searches edge i of n with
EdgeSide(i, n) == IF i = n - 1 THEN "right" ELSE "left"

\* numpy.histogram(x, bins=edges, weights=weights)[0]
NumpyHistogram(x, edges, weights) ==
    LET n == Size(edges)
        cum == [i \in 0..(n - 1) |-> CumWeight(x, weights, edges[i], EdgeSide(i, n))]
    IN  [i \in 0..(n - 2) |-> cum[i + 1] - cum[i]]

\* the shift without dropping the trailing edge
PointDataKeepingLast(bin_edges) ==
    LET delta_bin == bin_edges[1] - bin_edges[0]
    IN  [i \in 0..(Size(bin_edges) - 1) |-> bin_edges[i] + delta_bin \div 2]

\* bin_edges += delta_bin * 0.5; bin_edges = bin_edges[:-1]
PointData(bin_edges) ==
    LET delta_bin == bin_edges[1] - bin_edges[0]
    IN  [i \in 0..(Size(bin_edges) - 2) |-> bin_edges[i] + delta_bin \div 2]

\* [err, val]: val is Some(<<bin_edges, hist>>)
histogram_by_numpy(pixel_2theta_array, vec_counts, two_theta_vec, is_point_data, norm_bins) ==
    IF ~check_numpy_arrays(pixel_2theta_array, vec_counts)
    THEN [err |-> ShapeMismatchError, val |-> None]
    ELSE IF norm_bins
    THEN \* num_bins and x_range are locals that are never assigned (line 662)
         [err |-> NumBinsUnboundError, val |-> None]
    ELSE IF is_point_data /\ Size(two_theta_vec) < 2
    THEN [err |-> EdgeIndexError, val |-> None]
    ELSE LET hist == NumpyHistogram(pixel_2theta_array, two_theta_vec, vec_counts)
         IN  [err |-> NoError,
              val |-> Some(<< IF is_point_data THEN PointData(two_theta_vec) ELSE two_theta_vec,
                              hist >>)]

\* vec_counts *= self._detector_mask
Masked(vec_counts, mask) == [k \in DOMAIN vec_counts |-> vec_counts[k] * mask[k]]

\* the norm_bins argument reduce_to_2theta_histogram passes on (line 489)
NormBinsPassed(normalize_pixel_bin) == TRUE

\* [err, val]: val is Some(<<two_theta_vector, intensity_vector>>)
reduce_to_2theta_histogram(min_2theta, max_2theta, two_theta_step, apply_mask, is_point_data, normalize_pixel_bin, tth, counts, mask) ==
    LET vector == generate_2theta_histogram_vector(min_2theta, two_theta_step, max_2theta, tth)
        pixels == get_pixels_2theta(tth, 1)
    IN  IF vector.err # NoError
        THEN vector
        ELSE IF pixels.err # NoError
        THEN pixels
        ELSE IF counts = None
        THEN [err |-> AssertionFailure, val |-> None]
        ELSE IF ~check_numpy_arrays(pixels.val[1], counts[1])
                \/ ~SameShape(pixels.val[1], counts[1])
        THEN [err |-> ShapeMismatchError, val |-> None]
        ELSE IF apply_mask /\ mask # None /\ ~check_numpy_arrays(counts[1], mask[1])
        THEN [err |-> ShapeMismatchError, val |-> None]
        ELSE histogram_by_numpy(
                pixels.val[1],
                IF apply_mask /\ mask # None THEN Masked(counts[1], mask[1]) ELSE counts[1],
                vector.val[1], is_point_data, NormBinsPassed(normalize_pixel_bin))

\* [err, val]; x_range is None or Some(<<lo, hi>>).  The closing call (line 545)
\* hands six arguments to histogram_by_numpy, which takes five (line 592).
reduce_to_dspacing_histogram(counts_array, mask, num_bins, x_range, tth, wl) ==
    LET d_space_vec == get_dspacing_value(tth, wl, 1)
    IN  IF d_space_vec.err # NoError
        THEN d_space_vec
        ELSE IF ~SameShape(d_space_vec.val[1], counts_array)
        THEN [err |-> ShapeMismatchError, val |-> None]
        ELSE IF x_range # None /\ x_range[1][1] >= x_range[1][2]
        THEN [err |-> InvalidRangeError, val |-> None]
        ELSE IF mask # None /\ ~check_numpy_arrays(counts_array, mask[1])
        THEN [err |-> ShapeMismatchError, val |-> None]
        ELSE [err |-> ArgumentCountError, val |-> None]

(***************************************************************************)
(* Inputs of the reduction.                                                *)
(***************************************************************************)
Ones(n) == [k \in 0..(n - 1) |-> 1]
Ramp(n) == [k \in 0..(n - 1) |-> k + 1]
Alternate(n) == [k \in 0..(n - 1) |-> k % 2]

\* raw count vectors: one entry per pixel, or one entry short
CountVectors == {Ones(NumPixels), Ramp(NumPixels), Ramp(NumPixels - 1)}

\* mask vectors (1 for ROI, 0 for masked out)
MaskVectors == {Alternate(NumPixels), Alternate(NumPixels - 1)}

\* two_theta_range of reduce_to_2theta_histogram
TwoThetaRanges ==
    { <<None, None>>, <<Some(0), Some(90)>>, <<Some(90), Some(0)>>,
      <<Some(30), Some(30)>>, <<None, Some(0)>> }

TwoThetaSteps == {30}

\* x_range of reduce_to_dspacing_histogram, in units of 0.001
DspacingRanges == {None, Some(<<1000, 4000>>), Some(<<4000, 1000>>)}

DspacingBins == {2}

NoArgs == <<>>

(***************************************************************************)
(* The state after construction: ResidualStressInstrument(instrument_setup) *)
(* inside PyHB2BReduction(instrument), wave_length left at its default.    *)
(***************************************************************************)
Init ==
    /\ pixel_matrix = None
    /\ pixel_2theta_matrix = None
    /\ wave_length = None
    /\ detector_2theta = None
    /\ detector_counts = None
    /\ detector_mask = None
    /\ reduced_diffraction_data = None
    /\ built = FALSE
    /\ stress_field = None
    /\ raw_pixel_matrix = _set_uncalibrated_pixels
    /\ arm_length = ArmLength
    /\ data_dict = None
    /\ file_ref_dict = None
    /\ last = [op |-> "__init__", args |-> NoArgs, err |-> NoError, val |-> None]

(***************************************************************************)
(* Operations.                                                             *)
(***************************************************************************)
\* ResidualStressInstrument.build_instrument(two_theta, instrument_calibration)
InstrumentBuild ==
    \E two_theta \in TwoThetas, cal \in Calibrations :
        LET res == build_instrument(two_theta, cal, pixel_matrix, pixel_2theta_matrix,
                                   raw_pixel_matrix, arm_length)
        IN  /\ pixel_matrix' = res.pm
            /\ pixel_2theta_matrix' = res.tth
            /\ raw_pixel_matrix' = res.raw
            /\ built' = (built \/ res.err = NoError)
            /\ last' = [op |-> "build_instrument", args |-> <<two_theta, cal>>,
                        err |-> res.err, val |-> IF res.err = NoError THEN res.pm ELSE None]
            /\ UNCHANGED <<data_dict, file_ref_dict, arm_length, stress_field,
                           wave_length, detector_2theta, detector_counts,
                           detector_mask, reduced_diffraction_data>>

\* PyHB2BReduction.build_instrument(calibration)
ReductionBuild ==
    \E cal \in Calibrations :
        LET res == IF cal.kind # "None" /\ ~check_type(cal)
                   THEN [err |-> AssertionFailure, pm |-> pixel_matrix,
                         tth |-> pixel_2theta_matrix, raw |-> raw_pixel_matrix]
                   ELSE build_instrument(detector_2theta, cal, pixel_matrix,
                                         pixel_2theta_matrix, raw_pixel_matrix, arm_length)
        IN  /\ pixel_matrix' = res.pm
            /\ pixel_2theta_matrix' = res.tth
            /\ raw_pixel_matrix' = res.raw
            /\ built' = (built \/ res.err = NoError)
            /\ last' = [op |-> "PyHB2BReduction.build_instrument",
                        args |-> <<detector_2theta, cal>>, err |-> res.err, val |-> None]
            /\ UNCHANGED <<data_dict, file_ref_dict, arm_length, stress_field,
                           wave_length, detector_2theta, detector_counts,
                           detector_mask, reduced_diffraction_data>>

\* ResidualStressInstrument.set_wave_length(w_l)
SetWaveLength ==
    \E w \in WaveLengths :
        /\ wave_length' = Some(w)
        /\ last' = [op |-> "set_wave_length", args |-> NoArgs, err |-> NoError, val |-> None]
        /\ UNCHANGED <<data_dict, file_ref_dict, raw_pixel_matrix, arm_length,
                       stress_field, pixel_matrix, pixel_2theta_matrix,
                       detector_2theta, detector_counts, detector_mask,
                       reduced_diffraction_data, built>>

\* a getter leaves the object as it is
Getter(op, res) ==
    /\ last' = [op |-> op, args |-> NoArgs, err |-> res.err, val |-> res.val]
    /\ UNCHANGED <<data_dict, file_ref_dict, raw_pixel_matrix, arm_length,
                   stress_field, pixel_matrix, pixel_2theta_matrix, wave_length,
                   detector_2theta, detector_counts, detector_mask,
                   reduced_diffraction_data, built>>

GetPixelMatrix == Getter("get_pixel_matrix", get_pixel_matrix(pixel_matrix))

GetPixelArray == Getter("get_pixel_array", get_pixel_array(pixel_matrix))

GetPixels2Theta1 == Getter("get_pixels_2theta(1)", get_pixels_2theta(pixel_2theta_matrix, 1))

GetPixels2Theta2 == Getter("get_pixels_2theta(2)", get_pixels_2theta(pixel_2theta_matrix, 2))

GetDspacingValue ==
    Getter("get_dspacing_value", get_dspacing_value(pixel_2theta_matrix, wave_length, 1))

\* PyHB2BReduction.set_experimental_data(two_theta, raw_count_vec)
SetExperimentalData ==
    \E two_theta \in TwoThetas, raw_count_vec \in CountVectors :
        IF ~check_float_variable(two_theta)
        THEN /\ last' = [op |-> "set_experimental_data", args |-> NoArgs,
                         err |-> AssertionFailure, val |-> None]
             /\ UNCHANGED <<data_dict, file_ref_dict, raw_pixel_matrix,
                            arm_length, stress_field, pixel_matrix,
                            pixel_2theta_matrix, wave_length, detector_2theta,
                            detector_counts, detector_mask,
                            reduced_diffraction_data, built>>
        ELSE /\ detector_2theta' = two_theta
             /\ detector_counts' = Some(raw_count_vec)
             /\ last' = [op |-> "set_experimental_data", args |-> NoArgs,
                         err |-> NoError, val |-> None]
             /\ UNCHANGED <<data_dict, file_ref_dict, raw_pixel_matrix,
                            arm_length, stress_field, pixel_matrix,
                            pixel_2theta_matrix, wave_length, detector_mask,
                            reduced_diffraction_data, built>>

\* PyHB2BReduction.set_mask(mask_vec)
SetMask ==
    \E mask_vec \in MaskVectors :
        /\ detector_mask' = Some(mask_vec)
        /\ last' = [op |-> "set_mask", args |-> NoArgs, err |-> NoError, val |-> None]
        /\ UNCHANGED <<data_dict, file_ref_dict, raw_pixel_matrix, arm_length,
                       stress_field, pixel_matrix, pixel_2theta_matrix,
                       wave_length, detector_2theta, detector_counts,
                       reduced_diffraction_data, built>>

\* PyHB2BReduction.reduce_to_2theta_histogram(two_theta_range, two_theta_step,
\*     apply_mask, is_point_data, normalize_pixel_bin)
Reduce2Theta ==
    \E range \in TwoThetaRanges, step \in TwoThetaSteps,
       apply_mask \in BOOLEAN, is_point_data \in BOOLEAN, normalize_pixel_bin \in BOOLEAN :
        LET res == reduce_to_2theta_histogram(range[1], range[2], step, apply_mask,
                       is_point_data, normalize_pixel_bin, pixel_2theta_matrix,
                       detector_counts, detector_mask)
        IN  /\ reduced_diffraction_data' =
                    IF res.err = NoError THEN res.val ELSE reduced_diffraction_data
            /\ last' = [op |-> "reduce_to_2theta_histogram",
                        args |-> [range |-> range, step |-> step, apply_mask |-> apply_mask,
                                  is_point_data |-> is_point_data,
                                  normalize_pixel_bin |-> normalize_pixel_bin],
                        err |-> res.err, val |-> res.val]
            /\ UNCHANGED <<data_dict, file_ref_dict, raw_pixel_matrix,
                           arm_length, stress_field, pixel_matrix,
                           pixel_2theta_matrix, wave_length, detector_2theta,
                           detector_counts, detector_mask, built>>

\* PyHB2BReduction.reduce_to_dspacing_histogram(counts_array, mask, num_bins, x_range)
ReduceDspacing ==
    \E counts_array \in CountVectors, mask \in {None} \cup {Some(m) : m \in MaskVectors},
       num_bins \in DspacingBins, x_range \in DspacingRanges :
        LET res == reduce_to_dspacing_histogram(counts_array, mask, num_bins, x_range,
                                                pixel_2theta_matrix, wave_length)
        IN  /\ last' = [op |-> "reduce_to_dspacing_histogram",
                        args |-> [counts_array |-> counts_array, mask |-> mask,
                                  num_bins |-> num_bins, x_range |-> x_range],
                        err |-> res.err, val |-> res.val]
            /\ UNCHANGED <<data_dict, file_ref_dict, raw_pixel_matrix,
                           arm_length, stress_field, pixel_matrix,
                           pixel_2theta_matrix, wave_length, detector_2theta,
                           detector_counts, detector_mask,
                           reduced_diffraction_data, built>>

(***************************************************************************)
(* The instrument on its own: every operation of ResidualStressInstrument. *)
(***************************************************************************)
NextInstrument ==
    \/ InstrumentBuild
    \/ SetWaveLength
    \/ GetPixelMatrix
    \/ GetPixelArray
    \/ GetPixels2Theta1
    \/ GetPixels2Theta2
    \/ GetDspacingValue

SpecInstrument == Init /\ [][NextInstrument]_vars

(***************************************************************************)
(* The reduction: the operations of PyHB2BReduction on its own instrument. *)
(***************************************************************************)
NextReduction ==
    \/ ReductionBuild
    \/ SetExperimentalData
    \/ SetMask
    \/ Reduce2Theta

SpecReduction == Init /\ [][NextReduction]_vars

(***************************************************************************)
(* The d-spacing reduction: the instrument is built, given a wave length,  *)
(* and counts are reduced against the pixels' d-spacing.                   *)
(***************************************************************************)
NextDspacing ==
    \/ InstrumentBuild
    \/ SetWaveLength
    \/ ReduceDspacing

SpecDspacing == Init /\ [][NextDspacing]_vars

(***************************************************************************)
(* histogram_by_numpy is a static method: it is applied to arrays of       *)
(* HistLen samples and to bin edges made as the reducer makes them.        *)
(***************************************************************************)
HistLen == 2
MaxCount == 2

SampleAngles == {0, 30, 45, 60, 90}

EdgeVectors ==
    {Arange(lo, hi, step) : lo \in {0, 30}, hi \in {60, 90}, step \in {30, 60}}

\* the arguments of a call about to be made
InitHistogram ==
    /\ pixel_matrix = None
    /\ pixel_2theta_matrix = None
    /\ wave_length = None
    /\ detector_2theta = None
    /\ detector_counts = None
    /\ detector_mask = None
    /\ reduced_diffraction_data = None
    /\ built = FALSE
    /\ stress_field = None
    /\ raw_pixel_matrix = None
    /\ arm_length = None
    /\ data_dict = None
    /\ file_ref_dict = None
    /\ \E x \in [0..(HistLen - 1) -> SampleAngles],
          w \in [0..(HistLen - 1) -> 0..MaxCount] \cup [0..(HistLen - 2) -> 0..MaxCount],
          edges \in EdgeVectors,
          is_point_data \in BOOLEAN, norm_bins \in BOOLEAN :
            last = [op |-> "call histogram_by_numpy",
                    args |-> [x |-> x, w |-> w, edges |-> edges,
                              is_point_data |-> is_point_data, norm_bins |-> norm_bins],
                    err |-> NoError, val |-> None]

\* PyHB2BReduction.histogram_by_numpy(x, w, edges, is_point_data, norm_bins)
HistogramCall ==
    /\ last.op = "call histogram_by_numpy"
    /\ LET a == last.args
           res == histogram_by_numpy(a.x, a.w, a.edges, a.is_point_data, a.norm_bins)
       IN  last' = [op |-> "histogram_by_numpy", args |-> a,
                    err |-> res.err, val |-> res.val]
    /\ UNCHANGED <<data_dict, file_ref_dict, raw_pixel_matrix, arm_length,
                   stress_field, pixel_matrix, pixel_2theta_matrix, wave_length,
                   detector_2theta, detector_counts, detector_mask,
                   reduced_diffraction_data, built>>

NextHistogram == HistogramCall

SpecHistogram == InitHistogram /\ [][NextHistogram]_vars

(***************************************************************************)
(* Properties of the instrument (SpecInstrument).                          *)
(***************************************************************************)
PositionGetters == {"get_pixel_matrix", "get_pixel_array",
                    "get_pixels_2theta(1)", "get_pixels_2theta(2)"}

\* C1: as long as no build_instrument call has completed, get_pixel_matrix,
\* get_pixel_array, get_pixels_2theta and get_dspacing_value each fail with
\* the not-built error and return no data; once a build_instrument call has
\* completed, the position and angle getters succeed from then on.
C1_GettersFollowBuild ==
    /\ (~built /\ last.op \in PositionGetters \cup {"get_dspacing_value"})
            => (last.err = NotBuiltError /\ last.val = None)
    /\ (built /\ last.op \in PositionGetters)
            => (last.err = NoError /\ last.val # None)

\* C2: a build_instrument call that fails leaves the pixel matrix and the
\* pixel-2theta matrix exactly as they were before the call.
C2_FailedBuildChangesNothing ==
    [][(last'.op = "build_instrument" /\ last'.err # NoError)
        => (pixel_matrix' = pixel_matrix /\ pixel_2theta_matrix' = pixel_2theta_matrix)]_vars

\* C3: get_dspacing_value on a built instrument whose wavelength was never
\* set fails, and with an error of its own rather than with the TypeError of
\* an arithmetic operation on None; with a wavelength set it succeeds.
C3_MissingWavelengthIsReported ==
    (last.op = "get_dspacing_value" /\ pixel_2theta_matrix # None)
        => IF wave_length = None
           THEN last.err \notin {NoError, WaveLengthTypeError, NotBuiltError}
           ELSE last.err = NoError /\ last.val # None

\* the position the contract gives the pixel of row r and column c of the
\* raw layout (doubled, as every coordinate)
LayoutPosition(r, c) ==
    << ((NumCols - 1) - 2 * c) * PixelSizeX, (2 * r - (NumRows - 1)) * PixelSizeY, 0 >>

\* C4: the pixel of row r and column c has flat index c * NumRows + r; in
\* the raw layout it lies at y = (r - (R-1)/2) * pitch_y,
\* x = ((C-1)/2 - c) * pitch_x, z = 0; get_pixel_array and
\* get_pixels_2theta(1) both return the pixels in this flat order.
C4_FlatPixelOrder ==
    \A c \in 0..(NumCols - 1), r \in 0..(NumRows - 1) :
        LET k == c * NumRows + r
        IN  /\ Reshape1D(_raw_pixel_matrix)[k] = LayoutPosition(r, c)
            /\ (last.op = "get_pixel_array" /\ last.err = NoError)
                    => /\ DOMAIN last.val[1] = 0..(NumPixels - 1)
                       /\ last.val[1][k] = pixel_matrix[1][c][r]
                       /\ (pixel_matrix = Some(BuiltMatrix(_raw_pixel_matrix, ArmLength, 0, NoCalibration)))
                            => last.val[1][k] =
                                    << LayoutPosition(r, c)[1], LayoutPosition(r, c)[2],
                                       2 * ArmLength >>
            /\ (last.op = "get_pixels_2theta(1)" /\ last.err = NoError)
                    => /\ DOMAIN last.val[1] = 0..(NumPixels - 1)
                       /\ last.val[1][k] = pixel_2theta_matrix[1][c][r]

\* C4 witness: the flat pixel array of an instrument built without
\* calibration at 2theta = 0 was returned: pixel 1 lies above pixel 0 in the
\* same column and pixel NumRows starts the next column
C4_Witness ==
    /\ last.op = "get_pixel_array"
    /\ last.err = NoError
    /\ pixel_matrix = Some(BuiltMatrix(_raw_pixel_matrix, ArmLength, 0, NoCalibration))
    /\ last.val[1][1][2] > last.val[1][0][2]
    /\ last.val[1][1][1] = last.val[1][0][1]
    /\ last.val[1][NumRows][1] < last.val[1][0][1]

(***************************************************************************)
(* Properties of the reduction (SpecReduction) and of the histogram        *)
(* (SpecHistogram).                                                        *)
(***************************************************************************)
RECURSIVE SumOver(_, _)
\* the sum of f[k] over the k in S
SumOver(S, f) ==
    IF S = {} THEN 0
    ELSE LET k == CHOOSE j \in S : TRUE IN f[k] + SumOver(S \ {k}, f)

\* angle a lies in bin i of the bins the edges delimit: half-open, the last closed
InBin(a, i, edges) ==
    /\ edges[i] <= a
    /\ IF i = Size(edges) - 2 THEN a <= edges[i + 1] ELSE a < edges[i + 1]

\* the samples of x that lie in bin i
BinMembers(x, i, edges) == {k \in DOMAIN x : InBin(x[k], i, edges)}

IsReduce == last.op = "reduce_to_2theta_histogram"

\* the angles of the pixels of the instrument as built
PixelAngles ==
    {pixel_2theta_matrix[1][c][r] : c \in 0..(NumCols - 1), r \in 0..(NumRows - 1)}

\* the range a reduction with these arguments bins over, omitted endpoints
\* taken from the pixels
RangeMin(range) == IF range[1] = None THEN SetMin(PixelAngles) ELSE range[1][1]
RangeMax(range) == IF range[2] = None THEN SetMax(PixelAngles) ELSE range[2][1]

\* the range can be determined (both endpoints given, or the instrument built)
RangeKnown(range) ==
    (range[1] # None /\ range[2] # None) \/ pixel_2theta_matrix # None

\* the stored counts do not have one entry per pixel, or the mask to apply
\* does not have one entry per count
StoredShapesMismatch(apply_mask) ==
    \/ Size(detector_counts[1]) # NumPixels
    \/ (apply_mask /\ detector_mask # None
            /\ Size(detector_mask[1]) # Size(detector_counts[1]))

C6_InvalidRangeFails ==
    [][(/\ last'.op = "reduce_to_2theta_histogram"
        /\ last' # last
        /\ RangeKnown(last'.args.range)
        /\ RangeMin(last'.args.range) >= RangeMax(last'.args.range))
        => /\ last'.err = InvalidRangeError
           /\ last'.val = None
           /\ reduced_diffraction_data' = reduced_diffraction_data]_vars

\* C6 witness: a reduction whose omitted minimum defaulted to the smallest
\* pixel angle, not below the given maximum, has failed with the range error
C6_Witness ==
    /\ IsReduce
    /\ last.args.range[1] = None
    /\ last.args.range[2] # None
    /\ pixel_2theta_matrix # None
    /\ RangeMin(last.args.range) >= RangeMax(last.args.range)
    /\ last.err = InvalidRangeError

IsHistogram == last.op = "histogram_by_numpy"

\* C7: without normalization the intensity of bin i is the sum of the counts
\* of exactly the samples whose angle lies in [edge_i, edge_i+1), the last
\* bin being closed; the samples outside [edge_0, edge_n] are in no bin and
\* no sample is in two.
C7_BinIsSumOfItsPixels ==
    (IsHistogram /\ last.err = NoError /\ ~last.args.norm_bins)
        => LET x == last.args.x
               w == last.args.w
               edges == last.args.edges
               hist == last.val[1][2]
               bins == 0..(Size(edges) - 2)
           IN  /\ DOMAIN hist = bins
               /\ \A i \in bins : hist[i] = SumOver(BinMembers(x, i, edges), w)
               /\ SumOver(bins, hist) =
                    SumOver({k \in DOMAIN x :
                                /\ edges[0] <= x[k]
                                /\ x[k] <= edges[Size(edges) - 1]
                                /\ Size(edges) >= 2}, w)
               /\ \A i \in bins, j \in bins :
                    i # j => BinMembers(x, i, edges) \cap BinMembers(x, j, edges) = {}

\* C7 witness: an unnormalized histogram was returned for samples of which
\* one, with a count, lies on the last edge and is counted in the last bin,
\* and one, with a count, lies below the first edge and is counted nowhere
C7_Witness ==
    /\ IsHistogram
    /\ last.err = NoError
    /\ ~last.args.norm_bins
    /\ Size(last.args.edges) >= 2
    /\ \E k \in DOMAIN last.args.x :
            /\ last.args.x[k] = last.args.edges[Size(last.args.edges) - 1]
            /\ last.args.w[k] > 0
            /\ last.val[1][2][Size(last.args.edges) - 2] = last.args.w[k]
    /\ \E k \in DOMAIN last.args.x :
            /\ last.args.x[k] < last.args.edges[0]
            /\ last.args.w[k] > 0

\* the arguments and the stored data of the latest reduction are valid
ValidReduction ==
    /\ IsReduce
    /\ pixel_2theta_matrix # None
    /\ detector_counts # None
    /\ ~StoredShapesMismatch(last.args.apply_mask)
    /\ RangeMin(last.args.range) < RangeMax(last.args.range)

\* the counts the latest reduction bins, and the edges it bins them over
ReducedCounts ==
    [k \in 0..(NumPixels - 1) |->
        IF last.args.apply_mask /\ detector_mask # None
        THEN detector_counts[1][k] * detector_mask[1][k]
        ELSE detector_counts[1][k]]

ReducedAngles ==
    [k \in 0..(NumPixels - 1) |-> pixel_2theta_matrix[1][k \div NumRows][k % NumRows]]

ReducedEdges ==
    Arange(RangeMin(last.args.range), RangeMax(last.args.range), last.args.step)

\* the number of pixels bin i is divided by: those in the bin, 1 if there are none
BinDivisor(i) ==
    LET n == Cardinality(BinMembers(ReducedAngles, i, ReducedEdges))
    IN  IF n = 0 THEN 1 ELSE n

\* C8: with pixel-bin normalization on and valid inputs the reduction
\* succeeds, and the intensity of each bin is the summed masked counts of the
\* bin divided by the number of pixels in the bin (1 for an empty bin).
C8_NormalizedReductionSucceeds ==
    (ValidReduction /\ last.args.normalize_pixel_bin)
        => /\ last.err = NoError
           /\ \A i \in 0..(Size(ReducedEdges) - 2) :
                last.val[1][2][i] * BinDivisor(i) =
                    SumOver(BinMembers(ReducedAngles, i, ReducedEdges), ReducedCounts)

\* C9: normalize_pixel_bin decides whether the bins are normalized: with
\* False the returned intensities are the raw sums of the masked counts of
\* the bins, with True those sums divided by the pixel counts of the bins.
C9_NormalizeFlagDecides ==
    ValidReduction
        => /\ last.err = NoError
           /\ \A i \in 0..(Size(ReducedEdges) - 2) :
                last.val[1][2][i]
                    * (IF last.args.normalize_pixel_bin THEN BinDivisor(i) ELSE 1) =
                    SumOver(BinMembers(ReducedAngles, i, ReducedEdges), ReducedCounts)

\* C26: a reduction changes neither the stored counts nor the stored mask
\* and returns what the stored data give: a reduction without the mask,
\* after whatever reductions came before, returns the histogram of the full
\* unmasked counts.
C26_UnmaskedAfterMasked ==
    (ValidReduction /\ ~last.args.apply_mask)
        => /\ last.err = NoError
           /\ \A i \in 0..(Size(ReducedEdges) - 2) :
                last.val[1][2][i] * BinDivisor(i) =
                    SumOver(BinMembers(ReducedAngles, i, ReducedEdges), detector_counts[1])

\* the bin edges the code generates for the latest reduction
GeneratedEdges ==
    generate_2theta_histogram_vector(last.args.range[1], last.args.step,
                                     last.args.range[2], pixel_2theta_matrix).val[1]

\* C27: with both endpoints of the range omitted every pixel lies in a bin
\* of the generated edges, the pixels at the largest angle included, and
\* the unnormalized intensities add up to the masked counts of all pixels.
C27_DefaultRangeCountsEveryPixel ==
    (ValidReduction /\ last.args.range = <<None, None>>)
        => /\ \A k \in DOMAIN ReducedAngles :
                \E i \in 0..(Size(GeneratedEdges) - 2) :
                    InBin(ReducedAngles[k], i, GeneratedEdges)
           /\ ~last.args.normalize_pixel_bin
                => /\ last.err = NoError
                   /\ SumOver(0..(Size(GeneratedEdges) - 2), last.val[1][2]) =
                        SumOver(DOMAIN ReducedCounts, ReducedCounts)

\* C28: the pixel angles a reduction bins are those of an instrument built
\* for the 2theta most recently given to set_experimental_data, and a
\* build before any set_experimental_data fails and leaves the instrument
\* not built.
C28_AnglesOfCurrentData ==
    /\ ValidReduction
        => \E cal \in Calibrations :
              /\ cal.kind # "Other"
              /\ pixel_matrix = Some(BuiltMatrix(raw_pixel_matrix, arm_length,
                                                 detector_2theta[1], cal))
    /\ (last.op = "PyHB2BReduction.build_instrument" /\ detector_counts = None)
        => /\ last.err # NoError
           /\ pixel_matrix = None

\* C10: as point data the abscissa has one entry per bin, entry i being the
\* left edge of bin i plus half the bin width; as histogram data it is the
\* bin edges unshifted, one more than there are bins.
C10_PointDataAbscissa ==
    (IsHistogram /\ last.err = NoError)
        => LET edges == last.args.edges
               abscissa == last.val[1][1]
               hist == last.val[1][2]
           IN  IF last.args.is_point_data
               THEN /\ Size(abscissa) = Size(hist)
                    /\ DOMAIN abscissa = DOMAIN hist
                    /\ \A i \in DOMAIN abscissa :
                            2 * abscissa[i] = edges[i] + edges[i + 1]
               ELSE /\ abscissa = edges
                    /\ Size(abscissa) = Size(hist) + 1

\* C10 witness: point data of two bins was returned, each entry half a bin
\* width above its left edge
C10_Witness ==
    /\ IsHistogram
    /\ last.err = NoError
    /\ last.args.is_point_data
    /\ Size(last.args.edges) = 3
    /\ Size(last.val[1][1]) = 2
    /\ last.val[1][1][0] > last.args.edges[0]

(***************************************************************************)
(* Properties of the d-spacing reduction (SpecDspacing).                   *)
(***************************************************************************)
IsReduceDspacing == last.op = "reduce_to_dspacing_histogram"

\* the pixels' d-spacing is available: instrument built, wave length set
DspacingKnown == get_dspacing_value(pixel_2theta_matrix, wave_length, 1).err = NoError

\* the arguments of the latest d-spacing reduction are the ones the
\* reduction accepts: counts of the pixels' shape, a mask (if any) of the
\* same shape, an x range (if any) with min < max
ValidDspacingReduction ==
    /\ IsReduceDspacing
    /\ DspacingKnown
    /\ Size(last.args.counts_array) = NumPixels
    /\ last.args.mask # None => Size(last.args.mask[1]) = NumPixels
    /\ last.args.x_range # None => last.args.x_range[1][1] < last.args.x_range[1][2]

\* C11: reduce_to_dspacing_histogram returns an (abscissa, intensity) pair
\* whenever the shapes agree and the x range is valid: it fails only for a
\* shape mismatch or an x range with min >= max.
C11_DspacingReductionSucceeds ==
    ValidDspacingReduction =>
        /\ last.err = NoError
        /\ last.val # None
        /\ Len(last.val[1]) = 2

(***************************************************************************)
(* Scalar field samples (pyrs.dataobjects.fields.ScalarFieldSample).       *)
(*                                                                         *)
(* A sample is a sequence of measurements [value, error, point], in        *)
(* insertion order; point is <<x, y, z>>.  Values, errors and coordinates  *)
(* are integers in units of 0.001.  Every measurement of the drawn samples *)
(* carries a value of its own, so that a value tells where the measurement *)
(* comes from.                                                             *)
(***************************************************************************)
\* longest sample drawn
MaxPoints == 2

\* DEFAULT_POINT_RESOLUTION (0.01), in units of 0.001
Resolution == 10

\* two points are the same sample point: they are closer than the resolution
Coincide(p, q) ==
    (p[1] - q[1]) * (p[1] - q[1]) + (p[2] - q[2]) * (p[2] - q[2])
        + (p[3] - q[3]) * (p[3] - q[3]) < Resolution * Resolution

\* ScalarFieldSample(name, values, errors, x, y, z) for a scan along x
SampleMock(values, errors, x) ==
    [i \in 1..Len(values) |-> [value |-> values[i], error |-> errors[i], point |-> <<x[i], 0, 0>>]]

\* TestScalarFieldSample.sample1
sample1 ==
    SampleMock(<<1000, 1010, 1020, 1030, 1040, 1050, 1060, 1070, 1080, 1090>>,
               <<0, 1, 2, 3, 4, 5, 6, 7, 8, 9>>,
               <<0, 1000, 2000, 3000, 4000, 5000, 6000, 7000, 8000, 9000>>)

\* TestScalarFieldSample.sample2: its first three points overlap with the last
\* three points of sample1
sample2 ==
    SampleMock(<<1071, 1081, 1091, 1100, 1110, 1120, 1130, 1140, 1150, 1160>>,
               <<8, 8, 8, 0, 10, 20, 30, 40, 50, 60>>,
               <<7009, 8001, 9005, 10000, 11000, 12000, 13000, 14000, 15000, 16000>>)

\* the points and the errors of the drawn samples
FieldPoints == {<<0, 0, 0>>, <<0, 5, 0>>, <<1000, 0, 0>>}
FieldErrors == {1, 2}

\* the samples of at most MaxPoints measurements, before their values are set
SamplesOver(points, errors) ==
    UNION {[1..n -> [error : errors, point : points]] : n \in 1..MaxPoints}

DrawnSamples == SamplesOver(FieldPoints, FieldErrors)

\* no two points of the sample are the same sample point: a single scan
Separate(s) ==
    \A i, j \in 1..Len(s) : i # j => ~Coincide(s[i].point, s[j].point)

\* single scans over three sample points, one of them met at two positions
ScanPoints == FieldPoints \cup {<<2000, 0, 0>>}
ScanSamples == {s \in SamplesOver(ScanPoints, {1}) : Separate(s)}

\* the sample with values tag + 1, tag + 2, ...
Tagged(s, tag) ==
    [i \in 1..Len(s) |-> [value |-> tag + i, error |-> s[i].error, point |-> s[i].point]]

\* an aggregation that leaves out the points of b found in a
aggregateDistinct(a, b) ==
    a \o SelectSeq(b, LAMBDA m : \A i \in 1..Len(a) : ~Coincide(a[i].point, m.point))

\* ScalarFieldSample.aggregate(other): both samples' points as they are
aggregate(a, b) == a \o b

RECURSIVE aggregate_scalar_field_samples(_)
\* aggregate_scalar_field_samples(*args): the samples aggregated left to right
aggregate_scalar_field_samples(samples) ==
    IF Len(samples) = 1
    THEN samples[1]
    ELSE aggregate(aggregate_scalar_field_samples(SubSeq(samples, 1, Len(samples) - 1)),
                   samples[Len(samples)])

\* the geometry, the reduction and the data manager take no part in the
\* field operations
NoInstrument ==
    /\ pixel_matrix = None
    /\ pixel_2theta_matrix = None
    /\ wave_length = None
    /\ detector_2theta = None
    /\ detector_counts = None
    /\ detector_mask = None
    /\ reduced_diffraction_data = None
    /\ built = FALSE
    /\ stress_field = None
    /\ raw_pixel_matrix = None
    /\ arm_length = None
    /\ data_dict = None
    /\ file_ref_dict = None

\* a field operation returns a new value and changes no object
FieldCall(op, val) ==
    /\ last.op = "call"
    /\ last' = [op |-> op, args |-> last.args, err |-> NoError, val |-> Some(val)]
    /\ UNCHANGED <<data_dict, file_ref_dict, raw_pixel_matrix, arm_length,
                   stress_field, pixel_matrix, pixel_2theta_matrix, wave_length,
                   detector_2theta, detector_counts, detector_mask,
                   reduced_diffraction_data, built>>

\* a.aggregate(b)
Aggregate == FieldCall("aggregate", aggregate(last.args.a, last.args.b))

\* aggregate_scalar_field_samples(a, b, c)
AggregateSamples ==
    FieldCall("aggregate_scalar_field_samples",
              aggregate_scalar_field_samples(<<last.args.a, last.args.b, last.args.c>>))

\* the points of s that are the same sample point as its i-th point
Cluster(s, i) == {j \in 1..Len(s) : Coincide(s[i].point, s[j].point)}

\* among equal smallest errors the last point
min_error_last(s, indexes) ==
    CHOOSE i \in indexes : \A j \in indexes :
        s[i].error < s[j].error \/ (s[i].error = s[j].error /\ i >= j)

\* criterion 'min_error': the point of smallest error, the first of them
min_error(s, indexes) ==
    CHOOSE i \in indexes : \A j \in indexes :
        s[i].error < s[j].error \/ (s[i].error = s[j].error /\ i <= j)

RECURSIVE ExtractUpTo(_, _, _)
ExtractUpTo(s, indexes, n) ==
    IF n = 0 THEN <<>>
    ELSE ExtractUpTo(s, indexes, n - 1) \o (IF n \in indexes THEN <<s[n]>> ELSE <<>>)

\* ScalarFieldSample.extract(indexes): the selected points in their order
extract(s, indexes) == ExtractUpTo(s, indexes, Len(s))

\* ScalarFieldSample.coalesce(criterion='min_error')
coalesce(s) == extract(s, {min_error(s, Cluster(s, i)) : i \in 1..Len(s)})

\* a.aggregate(b).coalesce(criterion='min_error')
Coalesce == FieldCall("coalesce", coalesce(aggregate(last.args.a, last.args.b)))

\* fusing without the coalescing step: every measurement is kept
fuse_uncoalesced(a, b) == a \o b

\* ScalarFieldSample.fuse_with(other, criterion='min_error'): aggregate, then coalesce
fuse_with(a, b) == coalesce(aggregate(a, b))

\* a.fuse_with(b, criterion='min_error')
FuseWith == FieldCall("fuse_with", fuse_with(last.args.a, last.args.b))

\* a + b
Add == FieldCall("__add__", fuse_with(last.args.a, last.args.b))

(***************************************************************************)
(* Strain fields (pyrs.dataobjects.fields.StrainField).                    *)
(***************************************************************************)
OverlapError == "RuntimeError: sample points are overlapping"

\* a construction that accepts any point list
strain_field_unchecked(s) == [err |-> NoError, val |-> Some(s)]

\* StrainField(peak_collection, point_list): a single scan
strain_field(s) ==
    IF Separate(s)
    THEN [err |-> NoError, val |-> Some(s)]
    ELSE [err |-> OverlapError, val |-> None]

\* StrainField.fuse_with(other) on two single scans
strain_fuse_with(a, b) ==
    LET strain1 == strain_field(a)
        strain2 == strain_field(b)
    IN  IF strain1.err # NoError THEN strain1
        ELSE IF strain2.err # NoError THEN strain2
        ELSE [err |-> NoError, val |-> Some(fuse_with(strain1.val[1], strain2.val[1]))]

\* the outcome of an operation that may fail
StrainCall(op, res) ==
    /\ last.op = "call"
    /\ last' = [op |-> op, args |-> last.args, err |-> res.err, val |-> res.val]
    /\ UNCHANGED <<data_dict, file_ref_dict, raw_pixel_matrix, arm_length,
                   stress_field, pixel_matrix, pixel_2theta_matrix, wave_length,
                   detector_2theta, detector_counts, detector_mask,
                   reduced_diffraction_data, built>>

\* StrainField(peak_collection, point_list) on the measurements of a and b together
StrainFieldNew == StrainCall("StrainField", strain_field(aggregate(last.args.a, last.args.b)))

\* StrainField(a).fuse_with(StrainField(b))
StrainFuseWith == StrainCall("StrainField.fuse_with", strain_fuse_with(last.args.a, last.args.b))

(***************************************************************************)
(* Two samples, whose points may coincide within a sample and across the   *)
(* samples, and the operations on them.                                    *)
(***************************************************************************)
InitFields ==
    /\ NoInstrument
    /\ \E pair \in {<<Tagged(a, 10), Tagged(b, 20)>> : a \in DrawnSamples, b \in DrawnSamples}
                       \cup {<<sample1, sample2>>} :
          last = [op |-> "call", args |-> [a |-> pair[1], b |-> pair[2]],
                  err |-> NoError, val |-> None]

NextFields ==
    \/ Aggregate
    \/ Coalesce
    \/ FuseWith
    \/ Add
    \/ StrainFieldNew
    \/ StrainFuseWith

SpecFields == InitFields /\ [][NextFields]_vars

(***************************************************************************)
(* Stacking.  A stacked field keeps its sample, the point list it shares   *)
(* with the fields it was stacked with, and for each point of the list the *)
(* index of the sample's measurement there (its winner), or NoWinner.      *)
(***************************************************************************)
NoWinner == -1

NaN == <<>>

\* a sample as a field over its own points
AsField(s) ==
    [sample |-> s,
     point_list |-> [i \in 1..Len(s) |-> s[i].point],
     winners |-> [i \in 1..Len(s) |-> i]]

RECURSIVE Concat(_)
Concat(lists) ==
    IF lists = <<>> THEN <<>>
    ELSE Concat(SubSeq(lists, 1, Len(lists) - 1)) \o lists[Len(lists)]

\* a union that counts the points of the first list only
point_list_first(lists) == lists[1]

\* the lists' points together, each sample point once, where it is met first
point_list_union(lists) ==
    LET all == Concat(lists)
    IN  ExtractUpTo(all, {i \in 1..Len(all) : \A j \in 1..(i - 1) : ~Coincide(all[j], all[i])},
                    Len(all))

\* the field over the shared points: where the field has no point, no winner
stack_field(f, points) ==
    [sample |-> f.sample,
     point_list |-> points,
     winners |->
        [k \in 1..Len(points) |->
            LET hits == {i \in 1..Len(f.point_list) : Coincide(f.point_list[i], points[k])}
            IN  IF hits = {} THEN NoWinner ELSE f.winners[CHOOSE i \in hits : TRUE]]]

\* stacking in mode 'union': one field per input, all over the union of the points
stack_fields(fields) ==
    LET points == point_list_union([k \in 1..Len(fields) |-> fields[k].point_list])
    IN  [k \in 1..Len(fields) |-> stack_field(fields[k], points)]

\* a.stack_with(b, mode='union')
stack_with(a, b) == stack_fields(<<AsField(a), AsField(b)>>)

\* the values and errors of a stacked field: NaN where there is no winner
FieldValues(f) ==
    [k \in 1..Len(f.point_list) |->
        IF f.winners[k] = NoWinner
        THEN [value |-> NaN, error |-> NaN]
        ELSE [value |-> <<f.sample[f.winners[k]].value>>,
              error |-> <<f.sample[f.winners[k]].error>>]]

\* a.stack_with(b, mode='union')
StackWith == FieldCall("stack_with", stack_with(last.args.a, last.args.b))

\* the stacked fields with one more, left on its own points
rmul_unstacked(fields, c) == fields \o <<AsField(c)>>

\* [a, b] * c: the stacked fields stacked with one more
rmul(fields, c) == stack_fields(fields \o <<AsField(c)>>)

\* stack_strains(a, b, c): three fields stacked in one call
StackSamples ==
    FieldCall("stack_strains",
              stack_fields(<<AsField(last.args.a), AsField(last.args.b), AsField(last.args.c)>>))

\* (a * b) * c
Mul == FieldCall("__mul__", rmul(stack_with(last.args.a, last.args.b), last.args.c))

(***************************************************************************)
(* Three single scans and the operations on several samples.               *)
(***************************************************************************)
InitStack ==
    /\ NoInstrument
    /\ \E a \in ScanSamples, b \in ScanSamples, c \in ScanSamples :
          last = [op |-> "call",
                  args |-> [a |-> Tagged(a, 10), b |-> Tagged(b, 20), c |-> Tagged(c, 30)],
                  err |-> NoError, val |-> None]

NextStack ==
    \/ Aggregate
    \/ AggregateSamples
    \/ StackWith
    \/ StackSamples
    \/ Mul

SpecStack == InitStack /\ [][NextStack]_vars

(***************************************************************************)
(* Stress fields (pyrs.dataobjects.fields.StressField).                    *)
(*                                                                         *)
(* Floating-point quantities are exact fractions <<numerator,              *)
(* denominator>> in lowest terms with a positive denominator.  A field     *)
(* holds one sample point (the stress at a point depends on the strains at *)
(* that point only).  d-spacings are integers in units of 0.01; errors are *)
(* kept squared, the square of an error being a fraction.                  *)
(***************************************************************************)
RECURSIVE GCD(_, _)
GCD(a, b) == IF b = 0 THEN a ELSE GCD(b, a % b)

Abs(n) == IF n < 0 THEN -n ELSE n

\* the fraction n / d
Q(n, d) ==
    LET g == GCD(Abs(n), Abs(d))
    IN  IF d < 0 THEN <<(-n) \div g, (-d) \div g>> ELSE <<n \div g, d \div g>>

QAdd(p, q) == Q(p[1] * q[2] + q[1] * p[2], p[2] * q[2])
QMul(p, q) == Q(p[1] * q[1], p[2] * q[2])
QDiv(p, q) == Q(p[1] * q[2], p[2] * q[1])

\* to_microstrain
Micro == 1000000

\* strain in microstrain: (d_observed - d_reference) / d_reference * 1e6
strain_value(d, d_reference) == Q((d - d_reference) * Micro, d_reference)

\* the square of the strain's error, for an error of 1e-6 in d_observed
strain_error2(d_reference) == Q(100 * 100, d_reference * d_reference)

\* nu / (1 - 2 nu)
TraceFactor(nu) == QDiv(nu, QAdd(Q(1, 1), QMul(Q(-2, 1), nu)))

\* E / (1 + nu)
ShearFactor(E, nu) == QDiv(E, QAdd(Q(1, 1), nu))

\* stress along direction i: value and squared error
stress_component(f, i) ==
    LET eps == [j \in 1..3 |-> strain_value(f.d[j], f.d_reference)]
        trace == QAdd(eps[1], QAdd(eps[2], eps[3]))
        g == TraceFactor(f.poisson_ratio)
        s == ShearFactor(f.youngs_modulus, f.poisson_ratio)
        partial2 == [j \in 1..3 |->
                        LET c == IF j = i THEN QAdd(Q(1, 1), g) ELSE g IN QMul(c, c)]
        sum2 == QMul(QAdd(partial2[1], QAdd(partial2[2], partial2[3])),
                     strain_error2(f.d_reference))
    IN  [value |-> QMul(s, QAdd(eps[i], QMul(g, trace))),
         error2 |-> QMul(QMul(s, s), sum2)]

\* StressField.update_stress_calculation(): the three stresses anew
update_stress_calculation(f) ==
    [f EXCEPT !.stress = [i \in 1..3 |-> stress_component(f, i)]]

\* an assignment that leaves the stresses as they were
assign_only(f) == f

\* what the setters of youngs_modulus and poisson_ratio and set_d_reference
\* do once the new value is stored
after_assignment(f) == update_stress_calculation(f)

\* the values drawn: YOUNG = 4/3 and POISSON = 1/3 of the tests, and others
YoungsModuli == {Q(4, 3), Q(8, 3)}
PoissonRatios == {Q(1, 3), Q(0, 1)}
DSpacings == {100, 125, 150}
DReferences == {100, 125}

\* an operation on the stress field
StressCall(op, f) ==
    /\ stress_field' = Some(f)
    /\ last' = [op |-> op, args |-> NoArgs, err |-> NoError, val |-> None]
    /\ UNCHANGED <<data_dict, file_ref_dict, raw_pixel_matrix, arm_length,
                   pixel_matrix, pixel_2theta_matrix, wave_length,
                   detector_2theta, detector_counts, detector_mask,
                   reduced_diffraction_data, built>>

\* StressField(strain11, strain22, strain33, YOUNG, POISSON), mode 'diagonal'
StressFieldNew ==
    /\ stress_field = None
    /\ \E d11 \in DSpacings, d22 \in DSpacings, d33 \in DSpacings :
          StressCall("StressField",
                     update_stress_calculation(
                         [d |-> <<d11, d22, d33>>, d_reference |-> 100,
                          youngs_modulus |-> Q(4, 3), poisson_ratio |-> Q(1, 3),
                          stress |-> <<>>]))

\* stress.youngs_modulus = E
SetYoungsModulus ==
    /\ stress_field # None
    /\ \E E \in YoungsModuli :
          StressCall("youngs_modulus",
                     after_assignment([stress_field[1] EXCEPT !.youngs_modulus = E]))

\* stress.poisson_ratio = nu
SetPoissonRatio ==
    /\ stress_field # None
    /\ \E nu \in PoissonRatios :
          StressCall("poisson_ratio",
                     after_assignment([stress_field[1] EXCEPT !.poisson_ratio = nu]))

\* stress.set_d_reference(d_reference)
SetDReference ==
    /\ stress_field # None
    /\ \E d_reference \in DReferences :
          StressCall("set_d_reference",
                     after_assignment([stress_field[1] EXCEPT !.d_reference = d_reference]))

\* stress.update_stress_calculation()
UpdateStressCalculation ==
    /\ stress_field # None
    /\ StressCall("update_stress_calculation", update_stress_calculation(stress_field[1]))

NextStress ==
    \/ StressFieldNew
    \/ SetYoungsModulus
    \/ SetPoissonRatio
    \/ SetDReference
    \/ UpdateStressCalculation

SpecStress == Init /\ [][NextStress]_vars

(***************************************************************************)
(* StrainStress (pyrs/core/strain_stress_calculator.py): the stresses of   *)
(* three peak collections, computed at construction.  A peak collection    *)
(* is the array of [value, error] its get_microstrain() returns.           *)
(***************************************************************************)
DeltaEps3UnboundError == "UnboundLocalError: local variable delta_eps_3 referenced before assignment"
FloatNotCallableError == "TypeError: float object is not callable"

\* eps *= 1.e-6: microstrain to strain
ToStrain(peak) ==
    [k \in DOMAIN peak |-> [value |-> QMul(peak[k].value, Q(1, Micro)),
                            error |-> QMul(peak[k].error, Q(1, Micro))]]

\* [err, epsilon, epsilon_error]: the 3 x n strain matrices
_setup_strain_stress_matrix(peak_1, peak_2, peak_3, nu, is_plane_strain, is_plane_stress) ==
    LET eps_1 == ToStrain(peak_1)
        eps_2 == ToStrain(peak_2)
        zeros == [k \in DOMAIN peak_1 |-> Q(0, 1)]
        made(eps_3, delta_eps_3) ==
            [err |-> NoError,
             epsilon |-> <<[k \in DOMAIN eps_1 |-> eps_1[k].value],
                           [k \in DOMAIN eps_2 |-> eps_2[k].value], eps_3>>,
             epsilon_error |-> <<[k \in DOMAIN eps_1 |-> eps_1[k].error],
                                 [k \in DOMAIN eps_2 |-> eps_2[k].error], delta_eps_3>>]
    IN  IF is_plane_strain
        THEN made(zeros, zeros)
        ELSE IF is_plane_stress
        THEN \* eps_3 is computed (line 130), delta_eps_3 is not: line 147 reads it
             [err |-> DeltaEps3UnboundError, epsilon |-> None, epsilon_error |-> None]
        ELSE made([k \in DOMAIN peak_3 |-> ToStrain(peak_3)[k].value],
                  [k \in DOMAIN peak_3 |-> ToStrain(peak_3)[k].error])

\* line 188: self._E / (1 + self._nu)(...) calls the float 1 + nu
_calculate_stress_component(E, nu, epsilon, direction) ==
    [err |-> FloatNotCallableError, sigma |-> None]

\* the square of sigma_error[ax_1], point by point (the code takes the root):
\* each partial derivative is multiplied by the sum of two strains
_calculate_stress_component_error(E, nu, epsilon, epsilon_error, ax_1, ax_2, ax_3) ==
    LET g == QDiv(nu, QAdd(Q(1, 1), QMul(Q(-2, 1), nu)))
        square(x) == QMul(x, x)
        eps(ax, k) == epsilon[ax + 1][k]
        delta(ax, k) == epsilon_error[ax + 1][k]
        d_sig_ij_d_ax_1(k) == QAdd(Q(1, 1), QMul(g, QAdd(eps(ax_2, k), eps(ax_3, k))))
        d_sig_ij_d_ax_2(k) == QMul(g, QAdd(eps(ax_1, k), eps(ax_3, k)))
        d_sig_ij_d_ax_3(k) == QMul(g, QAdd(eps(ax_1, k), eps(ax_2, k)))
    IN  [k \in DOMAIN epsilon[ax_1 + 1] |->
            QMul(square(QDiv(E, QAdd(Q(1, 1), nu))),
                 QAdd(QMul(square(d_sig_ij_d_ax_1(k)), square(delta(ax_1, k))),
                      QAdd(QMul(square(d_sig_ij_d_ax_2(k)), square(delta(ax_2, k))),
                           QMul(square(d_sig_ij_d_ax_3(k)), square(delta(ax_3, k))))))]

\* [err, sigma, sigma_error2]: the three components in turn, then their
\* errors; the first failure ends it
_calculate_stress_matrix(E, nu, epsilon, epsilon_error) ==
    LET s0 == _calculate_stress_component(E, nu, epsilon, 0)
        s1 == _calculate_stress_component(E, nu, epsilon, 1)
        s2 == _calculate_stress_component(E, nu, epsilon, 2)
    IN  IF s0.err # NoError THEN s0
        ELSE IF s1.err # NoError THEN s1
        ELSE IF s2.err # NoError THEN s2
        ELSE [err |-> NoError, sigma |-> <<s0.sigma, s1.sigma, s2.sigma>>,
              sigma_error2 |->
                  <<_calculate_stress_component_error(E, nu, epsilon, epsilon_error, 0, 1, 2),
                    _calculate_stress_component_error(E, nu, epsilon, epsilon_error, 1, 0, 2),
                    _calculate_stress_component_error(E, nu, epsilon, epsilon_error, 2, 0, 1)>>]

\* StrainStress(peak_1, peak_2, peak_3, young_modulus, poisson_ratio,
\*              is_plane_strain, is_plane_stress): [err, val], val the object
StrainStress(peak_1, peak_2, peak_3, E, nu, is_plane_strain, is_plane_stress) ==
    LET setup == _setup_strain_stress_matrix(peak_1, peak_2, peak_3, nu,
                                             is_plane_strain, is_plane_stress)
        stress == _calculate_stress_matrix(E, nu, setup.epsilon, setup.epsilon_error)
    IN  IF setup.err # NoError
        THEN [err |-> setup.err, val |-> None]
        ELSE IF stress.err # NoError
        THEN [err |-> stress.err, val |-> None]
        ELSE [err |-> NoError,
              val |-> Some([epsilon |-> setup.epsilon, epsilon_error |-> setup.epsilon_error,
                            sigma |-> stress.sigma, sigma_error2 |-> stress.sigma_error2])]

\* the microstrains of a peak collection, and the material constants drawn
\* (E = 4/3 with nu = 1/3 makes E / (1 + nu) = 1 and nu / (1 - 2 nu) = 1)
MicroStrains == {0, 1000, 2000}
PeakCollections == {<<[value |-> Q(v, 1), error |-> Q(1, 1)]>> : v \in MicroStrains}
StrainStressModuli == {Q(4, 3), Q(1, 1)}
StrainStressRatios == {Q(1, 3), Q(2, 1)}

\* the arguments of a construction about to be made
InitStrainStress ==
    /\ NoInstrument
    /\ \E peak_1 \in PeakCollections, peak_2 \in PeakCollections, peak_3 \in PeakCollections,
          E \in StrainStressModuli, nu \in StrainStressRatios,
          is_plane_strain \in BOOLEAN, is_plane_stress \in BOOLEAN :
            last = [op |-> "call",
                    args |-> [peak_1 |-> peak_1, peak_2 |-> peak_2, peak_3 |-> peak_3,
                              E |-> E, nu |-> nu, is_plane_strain |-> is_plane_strain,
                              is_plane_stress |-> is_plane_stress],
                    err |-> NoError, val |-> None]

\* StrainStress(peak_1, peak_2, peak_3, E, nu, is_plane_strain, is_plane_stress)
StrainStressNew ==
    /\ last.op = "call"
    /\ LET a == last.args
           res == StrainStress(a.peak_1, a.peak_2, a.peak_3, a.E, a.nu,
                               a.is_plane_strain, a.is_plane_stress)
       IN  last' = [op |-> "StrainStress", args |-> a, err |-> res.err, val |-> res.val]
    /\ UNCHANGED <<data_dict, file_ref_dict, raw_pixel_matrix, arm_length,
                   stress_field, pixel_matrix, pixel_2theta_matrix, wave_length,
                   detector_2theta, detector_counts, detector_mask,
                   reduced_diffraction_data, built>>

NextStrainStress == StrainStressNew

SpecStrainStress == InitStrainStress /\ [][NextStrainStress]_vars

(***************************************************************************)
(* generate_rotation_matrix on its own: the three angles of a call, then   *)
(* the call.                                                               *)
(***************************************************************************)
RotationAngles == {0, 90, -90, 180}

InitRotation ==
    /\ NoInstrument
    /\ \E rx \in RotationAngles, ry \in RotationAngles, rz \in RotationAngles :
          last = [op |-> "call", args |-> <<rx, ry, rz>>, err |-> NoError, val |-> None]

\* ResidualStressInstrument.generate_rotation_matrix(rot_x_rad, rot_y_rad, rot_z_rad)
GenerateRotationMatrix ==
    /\ last.op = "call"
    /\ last' = [op |-> "generate_rotation_matrix", args |-> last.args, err |-> NoError,
                val |-> Some(generate_rotation_matrix(last.args[1], last.args[2],
                                                      last.args[3]))]
    /\ UNCHANGED <<data_dict, file_ref_dict, raw_pixel_matrix, arm_length,
                   stress_field, pixel_matrix, pixel_2theta_matrix, wave_length,
                   detector_2theta, detector_counts, detector_mask,
                   reduced_diffraction_data, built>>

NextRotation == GenerateRotationMatrix

SpecRotation == InitRotation /\ [][NextRotation]_vars

(***************************************************************************)
(* The error propagation of StrainStress applied on its own: strain and    *)
(* strain-error matrices of one point, and the three axis orders of        *)
(* _calculate_stress_matrix.                                               *)
(***************************************************************************)
ErrorStrains == {Q(0, 1), Q(1, 4), Q(1, 2)}
ErrorDeltas == {Q(1, 1), Q(2, 1)}
AxisOrders == {<<0, 1, 2>>, <<1, 0, 2>>, <<2, 0, 1>>}

InitStressError ==
    /\ NoInstrument
    /\ \E e1 \in ErrorStrains, e2 \in ErrorStrains, e3 \in ErrorStrains,
          d1 \in ErrorDeltas, d2 \in ErrorDeltas, d3 \in ErrorDeltas,
          E \in StrainStressModuli :
            last = [op |-> "call",
                    args |-> [E |-> E, nu |-> Q(1, 3),
                              epsilon |-> <<(<<e1>>), (<<e2>>), (<<e3>>)>>,
                              epsilon_error |-> <<(<<d1>>), (<<d2>>), (<<d3>>)>>],
                    err |-> NoError, val |-> None]

\* self._calculate_stress_component_error(ax_1, ax_2, ax_3)
CalculateStressComponentError ==
    /\ last.op = "call"
    /\ \E axes \in AxisOrders :
          LET a == last.args
          IN  last' = [op |-> "_calculate_stress_component_error",
                       args |-> [E |-> a.E, nu |-> a.nu, epsilon |-> a.epsilon,
                                 epsilon_error |-> a.epsilon_error, axes |-> axes],
                       err |-> NoError,
                       val |-> Some(_calculate_stress_component_error(a.E, a.nu, a.epsilon,
                                        a.epsilon_error, axes[1], axes[2], axes[3]))]
    /\ UNCHANGED <<data_dict, file_ref_dict, raw_pixel_matrix, arm_length,
                   stress_field, pixel_matrix, pixel_2theta_matrix, wave_length,
                   detector_2theta, detector_counts, detector_mask,
                   reduced_diffraction_data, built>>

NextStressError == CalculateStressComponentError

SpecStressError == InitStressError /\ [][NextStressError]_vars

(***************************************************************************)
(* RawDataManager (pyrs/core/datamanagers.py): the loaded data by data     *)
(* key, and the data key of every loaded file.  All files lie in one       *)
(* directory, so the directory hash that ends a data key is the same for   *)
(* all and is left out of the key.                                        *)
(***************************************************************************)
NotReplaceableError == "RuntimeError: Data file has been loaded and not allowed to be replaced"
NoSuchKeyError == "RuntimeError: Data reference ID (key) does not exist"
NoSuchSubKeyError == "RuntimeError: Sub key does not exist in data with main-key"
HolderNotIterableError == "TypeError: argument of type ScanDataHolder is not iterable"
TupleKeyError == "KeyError: (main_key, sub_key)"
NoRawFileNameError == "AttributeError: dict object has no attribute raw_file_name"
FileKeyError == "KeyError: file_name"

\* d[k] = v and del d[k] on a dict
Put(d, k, v) == [x \in DOMAIN d \cup {k} |-> IF x = k THEN v ELSE d[x]]
Del(d, k) == [x \in DOMAIN d \ {k} |-> d[x]]
EmptyDict == <<>>

\* base_name + '_' + hash: the key of a single file
generate_data_key(file_name) == [base |-> file_name, count |-> 0]

\* list.sort() of (det_id, file) pairs: by detector, then by file name; the
\* file names compare as their positions in FileOrder
FileOrder == <<"a.h5", "b.h5">>
FileRank(f) == CHOOSE i \in DOMAIN FileOrder : FileOrder[i] = f
PairBefore(p, q) == p[1] < q[1] \/ (p[1] = q[1] /\ FileRank(p[2]) <= FileRank(q[2]))
Sorted(list) ==
    IF Len(list) = 2 /\ ~PairBefore(list[1], list[2]) THEN <<list[2], list[1]>> ELSE list

\* base name of the first file of the sorted list + '_' + len + '_' + hash
generate_data_set_key(det_h5_list) ==
    [base |-> Sorted(det_h5_list)[1][2], count |-> Len(det_h5_list)]

generate_sub_data_key(det_id, file_name) == det_id

\* what the manager keeps under a data key: a ScanDataHolder of one file, or
\* a dict of ScanDataHolder by sub key
ScanDataHolder(file_name) == [is_dict |-> FALSE, raw_file_name |-> file_name, subs |-> EmptyDict]
HolderDict(subs) == [is_dict |-> TRUE, raw_file_name |-> "", subs |-> subs]

\* the state after the first n pairs of the list are stored under data_key
RECURSIVE StoreSet(_, _, _, _, _)
StoreSet(dd, fr, data_key, list, n) ==
    IF n = 0
    THEN [dd |-> Put(dd, data_key, HolderDict(EmptyDict)), fr |-> fr]
    ELSE LET before == StoreSet(dd, fr, data_key, list, n - 1)
             sub_key == generate_sub_data_key(list[n][1], list[n][2])
         IN  [dd |-> Put(before.dd, data_key,
                         HolderDict(Put(before.dd[data_key].subs, sub_key, list[n][2]))),
              fr |-> Put(before.fr, list[n][2], [key |-> data_key, sub |-> Some(sub_key)])]

\* RawDataManager.add_raw_data(diff_data_dict, sample_log_dict, h5file, replace):
\* [err, val, dd, fr]; the test at line 180 reads "and replace"
add_raw_data(dd, fr, h5file, replace) ==
    LET data_key == generate_data_key(h5file)
    IN  IF data_key \in DOMAIN dd /\ replace
        THEN [err |-> NotReplaceableError, val |-> None, dd |-> dd, fr |-> fr]
        ELSE [err |-> NoError, val |-> Some(data_key),
              dd |-> Put(dd, data_key, ScanDataHolder(h5file)),
              fr |-> Put(fr, h5file, [key |-> data_key, sub |-> None])]

\* RawDataManager.add_raw_data_set(diff_data_dict_set, sample_log_dict,
\*                                 det_h5_list, replace)
add_raw_data_set(dd, fr, det_h5_list, replace) ==
    LET data_key == generate_data_set_key(det_h5_list)
        list == Sorted(det_h5_list)
        stored == StoreSet(dd, fr, data_key, list, Len(list))
    IN  IF data_key \in DOMAIN dd /\ ~replace
        THEN [err |-> NotReplaceableError, val |-> None, dd |-> dd, fr |-> fr]
        ELSE [err |-> NoError, val |-> Some(data_key), dd |-> stored.dd, fr |-> stored.fr]

\* RawDataManager._check_data_key(data_key): the error it raises; a data
\* key is [key, sub], sub None unless it is a (main key, sub key) tuple
_check_data_key(dd, data_key) ==
    IF data_key.key \notin DOMAIN dd THEN NoSuchKeyError
    ELSE IF data_key.sub = None THEN NoError
    ELSE IF ~dd[data_key.key].is_dict THEN HolderNotIterableError
    ELSE IF data_key.sub[1] \notin DOMAIN dd[data_key.key].subs THEN NoSuchSubKeyError
    ELSE NoError

\* RawDataManager.delete_data(reference_id): [err, val, dd, fr]
delete_data(dd, fr, reference_id) ==
    LET checked == _check_data_key(dd, reference_id)
        key == reference_id.key
    IN  IF checked # NoError
        THEN [err |-> checked, val |-> None, dd |-> dd, fr |-> fr]
        ELSE IF reference_id.sub # None
        THEN \* self._data_dict[(main_key, sub_key)]
             [err |-> TupleKeyError, val |-> None, dd |-> dd, fr |-> fr]
        ELSE IF dd[key].is_dict
        THEN [err |-> NoRawFileNameError, val |-> None, dd |-> dd, fr |-> fr]
        ELSE IF dd[key].raw_file_name \notin DOMAIN fr
        THEN \* the data entry is already deleted (line 224)
             [err |-> FileKeyError, val |-> None, dd |-> Del(dd, key), fr |-> fr]
        ELSE [err |-> NoError, val |-> Some(TRUE), dd |-> Del(dd, key),
              fr |-> Del(fr, dd[key].raw_file_name)]

has_data(dd, reference_id) == reference_id \in DOMAIN dd

has_raw_data(fr, file_name) == file_name \in DOMAIN fr

\* the files, the detector ids and the file lists the calls are made with
DataFiles == {FileOrder[i] : i \in DOMAIN FileOrder}
DetectorIds == {1, 2}
DetectorFiles == DetectorIds \X DataFiles
DetH5Lists ==
    {<<p>> : p \in DetectorFiles}
        \cup {l \in {<<p, q>> : p \in DetectorFiles, q \in DetectorFiles} :
                    l[1] # l[2] /\ ~PairBefore(l[1], l[2])}
ReferenceIds ==
    {[key |-> k, sub |-> sub] :
        k \in {generate_data_key(f) : f \in DataFiles}
                \cup {generate_data_set_key(l) : l \in DetH5Lists},
        sub \in {None, Some(1)}}

\* RawDataManager()
InitManager ==
    /\ pixel_matrix = None
    /\ pixel_2theta_matrix = None
    /\ wave_length = None
    /\ detector_2theta = None
    /\ detector_counts = None
    /\ detector_mask = None
    /\ reduced_diffraction_data = None
    /\ built = FALSE
    /\ stress_field = None
    /\ raw_pixel_matrix = None
    /\ arm_length = None
    /\ data_dict = EmptyDict
    /\ file_ref_dict = EmptyDict
    /\ last = [op |-> "__init__", args |-> NoArgs, err |-> NoError, val |-> None]

\* a call on the manager: its outcome, and the two dicts it leaves
ManagerCall(op, args, res) ==
    /\ data_dict' = res.dd
    /\ file_ref_dict' = res.fr
    /\ last' = [op |-> op, args |-> args, err |-> res.err, val |-> res.val]
    /\ UNCHANGED <<raw_pixel_matrix, arm_length, stress_field, pixel_matrix,
                   pixel_2theta_matrix, wave_length, detector_2theta, detector_counts,
                   detector_mask, reduced_diffraction_data, built>>

AddRawData ==
    \E h5file \in DataFiles, replace \in BOOLEAN :
        ManagerCall("add_raw_data", [h5file |-> h5file, replace |-> replace],
                    add_raw_data(data_dict, file_ref_dict, h5file, replace))

AddRawDataSet ==
    \E det_h5_list \in DetH5Lists, replace \in BOOLEAN :
        ManagerCall("add_raw_data_set", [det_h5_list |-> det_h5_list, replace |-> replace],
                    add_raw_data_set(data_dict, file_ref_dict, det_h5_list, replace))

DeleteData ==
    \E reference_id \in ReferenceIds :
        ManagerCall("delete_data", [reference_id |-> reference_id],
                    delete_data(data_dict, file_ref_dict, reference_id))

NextManager == AddRawData \/ AddRawDataSet \/ DeleteData

SpecManager == InitManager /\ [][NextManager]_vars

(***************************************************************************)
(* Properties of the instrument geometry (SpecInstrument, SpecRotation).   *)
(***************************************************************************)
IsBuilt == last.op = "build_instrument" /\ last.err = NoError

\* C22: the raw layout and the arm length are what construction made them,
\* and the pixel matrix of a build that returned is the one a fresh
\* instrument gives for the same 2theta and calibration.
C22_BuildDependsOnArguments ==
    /\ raw_pixel_matrix = _set_uncalibrated_pixels
    /\ arm_length = ArmLength
    /\ IsBuilt => pixel_matrix = Some(BuiltMatrix(_set_uncalibrated_pixels, ArmLength,
                                                  last.args[1][1], last.args[2]))

C22_Witness ==
    /\ IsBuilt
    /\ last.args[2] = ShiftRot
    /\ last.args[1] = Some(90)
    /\ pixel_matrix # Some(BuiltMatrix(_set_uncalibrated_pixels, ArmLength, 0, NoCalibration))

\* C23: the pixel matrix and the 2theta matrix are both absent or both
\* present, and the 2theta matrix holds the angle of every pixel of the
\* current pixel matrix with the beam (0, 0, 1).
C23_AnglesMatchPixels ==
    /\ (pixel_matrix = None) <=> (pixel_2theta_matrix = None)
    /\ pixel_matrix # None =>
          pixel_2theta_matrix = Some(_calculate_pixel_2theta(pixel_matrix[1]))

\* matrix times column vector
MatVec(R, p) == [i \in 1..3 |-> R[i][1] * p[1] + R[i][2] * p[2] + R[i][3] * p[3]]

\* where the claimed order of transformations puts the raw pixel p
\* (coordinates doubled)
Transformed(p, two_theta, cal) ==
    IF cal.kind = "None"
    THEN MatVec(_cal_rotation_matrix_y(two_theta), <<p[1], p[2], p[3] + 2 * ArmLength>>)
    ELSE LET shifted == <<p[1] + 2 * cal.center_shift_x, p[2] + 2 * cal.center_shift_y, p[3]>>
             turned == MatVec(generate_rotation_matrix(cal.rotation_x, cal.rotation_y,
                                                       cal.rotation_z), shifted)
         IN  MatVec(_cal_rotation_matrix_y(two_theta),
                    <<turned[1], turned[2],
                      turned[3] + 2 * (ArmLength + cal.center_shift_z)>>)

\* C24: a build that returns puts every raw pixel p at
\* Ry(2theta) * (Rcal * (p + (shift_x, shift_y, 0)) + (0, 0, arm + shift_z)),
\* and at Ry(2theta) * (p + (0, 0, arm)) without a calibration.
C24_TransformationOrder ==
    IsBuilt =>
        \A c \in DOMAIN _set_uncalibrated_pixels :
            \A r \in DOMAIN _set_uncalibrated_pixels[c] :
                pixel_matrix[1][c][r] =
                    Transformed(_set_uncalibrated_pixels[c][r], last.args[1][1], last.args[2])

C24_Witness ==
    /\ IsBuilt
    /\ last.args[2] = ShiftRot
    /\ pixel_matrix[1][0][0] =
          Transformed(_set_uncalibrated_pixels[0][0], last.args[1][1], ShiftRot)
    /\ pixel_matrix[1][0][0] # CalibratedShiftLast(_set_uncalibrated_pixels, ShiftRot)[0][0]

\* the determinant of a 3 x 3 matrix
Det(R) ==
      R[1][1] * (R[2][2] * R[3][3] - R[2][3] * R[3][2])
    - R[1][2] * (R[2][1] * R[3][3] - R[2][3] * R[3][1])
    + R[1][3] * (R[2][1] * R[3][2] - R[2][2] * R[3][1])

\* C25: generate_rotation_matrix(rx, ry, rz) is the matrix product
\* Rx(rx) * Ry(ry) * Rz(rz); its rows are orthonormal and its determinant is 1.
C25_RotationIsProduct ==
    (last.op = "generate_rotation_matrix") =>
        LET R == last.val[1]
            X == _cal_rotation_matrix_x(last.args[1])
            Y == _cal_rotation_matrix_y(last.args[2])
            Z == _cal_rotation_matrix_z(last.args[3])
            XY(i, l) == X[i][1] * Y[1][l] + X[i][2] * Y[2][l] + X[i][3] * Y[3][l]
        IN  /\ \A i \in 1..3, j \in 1..3 :
                  R[i][j] = XY(i, 1) * Z[1][j] + XY(i, 2) * Z[2][j] + XY(i, 3) * Z[3][j]
            /\ \A i \in 1..3, j \in 1..3 :
                  R[i][1] * R[j][1] + R[i][2] * R[j][2] + R[i][3] * R[j][3]
                      = IF i = j THEN 1 ELSE 0
            /\ Det(R) = 1

C25_Witness ==
    /\ last.op = "generate_rotation_matrix"
    /\ last.args = <<90, 90, 90>>
    /\ last.val[1] # ElementwiseMul(ElementwiseMul(_cal_rotation_matrix_x(90),
                                                   _cal_rotation_matrix_y(90)),
                                    _cal_rotation_matrix_z(90))

(***************************************************************************)
(* Properties of the field operations.                                     *)
(***************************************************************************)
\* the samples the latest aggregation was given, in argument order
AggregatedSamples ==
    IF last.op = "aggregate"
    THEN <<last.args.a, last.args.b>>
    ELSE <<last.args.a, last.args.b, last.args.c>>

\* the number of points of the samples before the k-th
PointsBefore(samples, k) ==
    SumOver(1..(k - 1), [j \in 1..(k - 1) |-> Len(samples[j])])

\* C12: an aggregation has as many points as its samples have together: the
\* points of each sample in their order, sample after sample in argument
\* order, each with its value, error and coordinates, coincident points
\* included.
C12_AggregateConcatenates ==
    last.op \in {"aggregate", "aggregate_scalar_field_samples"} =>
        LET samples == AggregatedSamples
            out == last.val[1]
        IN  /\ Len(out) = PointsBefore(samples, Len(samples) + 1)
            /\ \A k \in 1..Len(samples) : \A i \in 1..Len(samples[k]) :
                  out[PointsBefore(samples, k) + i] = samples[k][i]

\* three samples are aggregated and a point of the first is found again in
\* the second and in the third
C12_Witness ==
    /\ last.op = "aggregate_scalar_field_samples"
    /\ Len(last.val[1]) = Len(last.args.a) + Len(last.args.b) + Len(last.args.c)
    /\ \E i \in 1..Len(last.args.a), j \in 1..Len(last.args.b), k \in 1..Len(last.args.c) :
          /\ Coincide(last.args.a[i].point, last.args.b[j].point)
          /\ Coincide(last.args.a[i].point, last.args.c[k].point)

\* the sample the latest coalesce was applied to
CoalesceInput == aggregate(last.args.a, last.args.b)

\* the place in sample s of measurement m (the values of s differ)
Place(s, m) == CHOOSE i \in 1..Len(s) : s[i] = m

\* C13: coalesce('min_error') puts one point in the place of each group of
\* coincident points: a member of the group with the smallest error, the first
\* of them in input order when errors are equal, with its own value, error and
\* coordinates; a point coincident with no other is kept as it is; the
\* surviving points keep their input order.
C13_CoalesceKeepsMinError ==
    last.op = "coalesce" =>
        LET in == CoalesceInput
            out == last.val[1]
        IN  /\ \A k \in 1..Len(out) : \E i \in 1..Len(in) : out[k] = in[i]
            /\ \A i \in 1..Len(in) :
                  LET group == {j \in 1..Len(in) : Coincide(in[i].point, in[j].point)}
                      kept == {j \in group : \E k \in 1..Len(out) : out[k] = in[j]}
                  IN  /\ Cardinality(kept) = 1
                      /\ \A w \in kept : \A j \in group :
                            \/ in[w].error < in[j].error
                            \/ in[w].error = in[j].error /\ w <= j
            /\ \A k, l \in 1..Len(out) : k < l => Place(in, out[k]) < Place(in, out[l])

\* test_coalesce: of the 20 points of sample1 and sample2, 17 are left; at
\* x = 7 sample1 has the smaller error, at x = 8 the errors are equal and
\* sample1 comes first, at x = 9 sample2 has the smaller error
C13_Witness ==
    /\ last.op = "coalesce"
    /\ last.args.a = sample1
    /\ last.args.b = sample2
    /\ Len(last.val[1]) = 17
    /\ [k \in 7..11 |-> last.val[1][k].value] = [k \in 7..11 |-> <<1060, 1070, 1080, 1091, 1100>>[k - 6]]
    /\ [k \in 7..11 |-> last.val[1][k].error] = [k \in 7..11 |-> <<6, 7, 8, 8, 0>>[k - 6]]
    /\ [k \in 7..11 |-> last.val[1][k].point[1]] = [k \in 7..11 |-> <<6000, 7000, 8000, 9005, 10000>>[k - 6]]

\* the points of b that are the same sample point as a point of a
Shared(a, b) == {j \in 1..Len(b) : \E i \in 1..Len(a) : Coincide(a[i].point, b[j].point)}

\* C14: for samples a and b without coincident points of their own, a fused
\* with b (fuse_with, or a + b) has len(a) + len(b) points less the points of
\* b that coincide with a point of a, as many as a.aggregate(b) coalesced.
C14_FuseLength ==
    (last.op \in {"fuse_with", "__add__"} /\ Separate(last.args.a) /\ Separate(last.args.b)) =>
        /\ Len(last.val[1]) =
              Len(last.args.a) + Len(last.args.b)
                  - Cardinality(Shared(last.args.a, last.args.b))
        /\ Len(last.val[1]) = Len(coalesce(aggregate(last.args.a, last.args.b)))

\* test_fuse_with: sample1 and sample2 share three points and fuse to 17
C14_Witness ==
    /\ last.op = "fuse_with"
    /\ last.args.a = sample1
    /\ last.args.b = sample2
    /\ Separate(sample1)
    /\ Separate(sample2)
    /\ Cardinality(Shared(sample1, sample2)) = 3
    /\ Len(last.val[1]) = 17

\* the two point lists cover the same sample points
SameCoverage(p, q) ==
    /\ \A k \in 1..Len(p) : \E l \in 1..Len(q) : Coincide(p[k], q[l])
    /\ \A l \in 1..Len(q) : \E k \in 1..Len(p) : Coincide(p[k], q[l])

\* sample s is found in stacked field f: each of its points with its value and
\* error, and NaN at the points of the list that are no point of s
FoundIn(s, f) ==
    /\ \A i \in 1..Len(s) : \E k \in 1..Len(f.point_list) :
          /\ Coincide(f.point_list[k], s[i].point)
          /\ FieldValues(f)[k] = [value |-> <<s[i].value>>, error |-> <<s[i].error>>]
    /\ \A k \in 1..Len(f.point_list) :
          (\A i \in 1..Len(s) : ~Coincide(f.point_list[k], s[i].point))
              => FieldValues(f)[k] = [value |-> NaN, error |-> NaN]

C16_StackAssociates ==
    last.op = "__mul__" =>
        LET a == last.args.a
            b == last.args.b
            c == last.args.c
            out == last.val[1]
            once == stack_fields(<<AsField(a), AsField(b), AsField(c)>>)
            right == stack_fields(<<AsField(a)>> \o stack_with(b, c))
        IN  /\ Len(out) = 3
            /\ \A k \in 1..3 :
                  /\ out[k].point_list = once[k].point_list
                  /\ out[k].point_list = out[1].point_list
                  /\ FieldValues(out[k]) = FieldValues(once[k])
            /\ Len(right[1].point_list) = Len(out[1].point_list)
            /\ SameCoverage(right[1].point_list, out[1].point_list)

\* a and b share a sample point, b brings a point a has not, and c a point
\* that neither has: each stacking adds to the point list
C16_Witness ==
    /\ last.op = "__mul__"
    /\ Shared(last.args.a, last.args.b) # {}
    /\ Len(last.val[1][1].point_list) = 3
    /\ Len(stack_with(last.args.a, last.args.b)[1].point_list) = 2
    /\ Len(last.args.a) = 1
    /\ \E k \in 1..3 : FieldValues(last.val[1][3])[k].value = NaN

\* C17: a single-scan strain field is not made from a point list in which two
\* points coincide: the construction fails with the overlap error and gives
\* no object; two scans that share sample points are fused all the same.
C17_OverlapRejected ==
    /\ (last.op = "StrainField" /\ ~Separate(aggregate(last.args.a, last.args.b))) =>
          /\ last.err = OverlapError
          /\ last.val = None
    /\ (last.op = "StrainField.fuse_with" /\ Separate(last.args.a) /\ Separate(last.args.b)) =>
          /\ last.err = NoError
          /\ last.val # None

\* the points of two scans that share a sample point make no single scan,
\* while the two scans fuse
C17_Witness ==
    /\ last.op = "StrainField"
    /\ Separate(last.args.a)
    /\ Separate(last.args.b)
    /\ Shared(last.args.a, last.args.b) # {}
    /\ last.err = OverlapError
    /\ strain_fuse_with(last.args.a, last.args.b).err = NoError

(***************************************************************************)
(* Properties of the stress field (SpecStress).                            *)
(***************************************************************************)
\* the strain of the field along direction i
Strain(f, i) == Q((f.d[i] - f.d_reference) * Micro, f.d_reference)

\* Hooke's law along direction i for the field's strains, E and nu
HookeValue(f, i) ==
    LET E == f.youngs_modulus
        nu == f.poisson_ratio
        trace == QAdd(Strain(f, 1), QAdd(Strain(f, 2), Strain(f, 3)))
    IN  QMul(QDiv(E, QAdd(Q(1, 1), nu)),
             QAdd(Strain(f, i),
                  QMul(QDiv(nu, QAdd(Q(1, 1), QMul(Q(-2, 1), nu))), trace)))

\* C18: whatever has been assigned to youngs_modulus and poisson_ratio and
\* given to set_d_reference, the three stresses are those of Hooke's law for
\* the strains, E and nu the field has now, values and errors, and
\* update_stress_calculation changes nothing when nothing has changed.
C18_StressFollowsAssignments ==
    stress_field # None =>
        LET f == stress_field[1]
        IN  /\ \A i \in 1..3 :
                  /\ f.stress[i].value = HookeValue(f, i)
                  /\ f.stress[i] = stress_component(f, i)
            /\ update_stress_calculation(f) = f

\* E, nu and the reference spacing have all been changed since construction,
\* and there is stress
C18_Witness ==
    /\ stress_field # None
    /\ last.op = "set_d_reference"
    /\ stress_field[1].youngs_modulus = Q(8, 3)
    /\ stress_field[1].poisson_ratio = Q(0, 1)
    /\ stress_field[1].d_reference = 125
    /\ stress_field[1].stress[1].value # Q(0, 1)
    /\ stress_field[1].stress[1].error2 # Q(0, 1)

(***************************************************************************)
(* Properties of StrainStress (SpecStrainStress).                          *)
(***************************************************************************)
\* the strains (not microstrains) along 11 and 22 the construction was given
GivenStrain(peak) == QMul(peak[1].value, Q(1, Micro))

\* C19: in the in-plane-stress mode, with strains along 11 and 22, the
\* computation succeeds, the strain along 33 is nu / (nu - 1) times
\* (eps11 + eps22), and the stress along 33 is exactly zero.
C19_PlaneStressSucceeds ==
    (last.op = "StrainStress" /\ last.args.is_plane_stress /\ ~last.args.is_plane_strain) =>
        /\ last.err = NoError
        /\ last.val # None
        /\ last.val[1].epsilon[3][1] =
              QMul(QDiv(last.args.nu, QAdd(last.args.nu, Q(-1, 1))),
                   QAdd(GivenStrain(last.args.peak_1), GivenStrain(last.args.peak_2)))
        /\ last.val[1].sigma[3][1] = Q(0, 1)

\* C20: in the diagonal mode the stress along i is
\* E / (1 + nu) * (eps_i + nu / (1 - 2 nu) * (eps_1 + eps_2 + eps_3)); with
\* E / (1 + nu) = 1, nu / (1 - 2 nu) = 1 and three equal strains eps it is
\* exactly 4 * eps.
C20_DiagonalStressIsHooke ==
    (last.op = "StrainStress" /\ ~last.args.is_plane_stress /\ ~last.args.is_plane_strain) =>
        LET a == last.args
            eps == <<GivenStrain(a.peak_1), GivenStrain(a.peak_2), GivenStrain(a.peak_3)>>
            trace == QAdd(eps[1], QAdd(eps[2], eps[3]))
        IN  /\ last.err = NoError
            /\ last.val # None
            /\ \A i \in 1..3 :
                  last.val[1].sigma[i][1] =
                      QMul(ShearFactor(a.E, a.nu), QAdd(eps[i], QMul(TraceFactor(a.nu), trace)))
            /\ (/\ ShearFactor(a.E, a.nu) = Q(1, 1)
                /\ TraceFactor(a.nu) = Q(1, 1)
                /\ eps[1] = eps[2]
                /\ eps[2] = eps[3])
                  => \A i \in 1..3 : last.val[1].sigma[i][1] = QMul(Q(4, 1), eps[1])

\* C21: the square of the stress error along ax_1 is (E / (1 + nu))^2 times
\* (1 + g)^2 d1^2 + g^2 d2^2 + g^2 d3^2 with g = nu / (1 - 2 nu): it does not
\* depend on the strain values, and is 6 d^2 for E / (1 + nu) = 1, g = 1 and
\* equal strain errors d.
C21_ErrorIsQuadrature ==
    (last.op = "_calculate_stress_component_error") =>
        LET a == last.args
            g == TraceFactor(a.nu)
            square(x) == QMul(x, x)
            delta(i) == a.epsilon_error[a.axes[i] + 1][1]
            quadrature == QAdd(QMul(square(QAdd(Q(1, 1), g)), square(delta(1))),
                               QAdd(QMul(square(g), square(delta(2))),
                                    QMul(square(g), square(delta(3)))))
        IN  /\ last.val[1][1] = QMul(square(ShearFactor(a.E, a.nu)), quadrature)
            /\ (ShearFactor(a.E, a.nu) = Q(1, 1) /\ g = Q(1, 1)
                /\ delta(1) = delta(2) /\ delta(2) = delta(3))
                  => last.val[1][1] = QMul(Q(6, 1), square(delta(1)))

(***************************************************************************)
(* Properties of the raw data manager (SpecManager).                       *)
(***************************************************************************)
\* C29: add_raw_data for a file whose data key is present replaces the
\* entry and succeeds when replace is set, and fails with the 'not allowed
\* to be replaced' error, the manager unchanged, when replace is not set;
\* for a file whose key is not present it succeeds either way.
C29_ReplaceDecides ==
    [][(last'.op = "add_raw_data") =>
        LET data_key == generate_data_key(last'.args.h5file)
        IN  IF data_key \in DOMAIN data_dict /\ ~last'.args.replace
            THEN /\ last'.err = NotReplaceableError
                 /\ data_dict' = data_dict
                 /\ file_ref_dict' = file_ref_dict
            ELSE /\ last'.err = NoError
                 /\ data_key \in DOMAIN data_dict'
                 /\ data_dict'[data_key] = ScanDataHolder(last'.args.h5file)
                 /\ has_raw_data(file_ref_dict', last'.args.h5file)]_vars

\* every file of the file index refers to a data key, and a sub key for a
\* data set, that the data dictionary has
IndexAgrees(dd, fr) ==
    \A f \in DOMAIN fr :
        /\ has_data(dd, fr[f].key)
        /\ fr[f].sub # None =>
              /\ dd[fr[f].key].is_dict
              /\ fr[f].sub[1] \in DOMAIN dd[fr[f].key].subs

\* C30: the file index and the data dictionary agree, and delete_data of a
\* reference id that exists, of a single file or of a data set, succeeds
\* and removes the data entry and all its entries of the file index.
C30_IndexAgreesAndDeleteRemoves ==
    [][/\ IndexAgrees(data_dict', file_ref_dict')
       /\ (/\ last'.op = "delete_data"
           /\ last'.args.reference_id.sub = None
           /\ has_data(data_dict, last'.args.reference_id.key))
            => /\ last'.err = NoError
               /\ ~has_data(data_dict', last'.args.reference_id.key)
               /\ \A f \in DOMAIN file_ref_dict' :
                      file_ref_dict'[f].key # last'.args.reference_id.key]_vars

====
